---- MODULE Spec2Model ----
(***************************************************************************)
(* Solved tic-tac-toe: the board codec and the 8 symmetry tables of        *)
(* boardState.js, the memoized minimax generation run that emits the       *)
(* game tree table, and the checks of the table's contract.                *)
(*                                                                         *)
(* Boards are arrays indexed 0..8 (functions over 0..8); strings are       *)
(* sequences of one-character strings.                                     *)
(***************************************************************************)
EXTENDS Integers, Sequences, FiniteSets, Bags, TLC

VARIABLES
    input,      \* codec run: the board B handed to the codec / reducer
    board,      \* codec run: the current board value
    str,        \* codec run: the current string value (NoStr before any)
    key,        \* codec run: the first canonical key computed (NoStr before)
    perm,       \* codec run: index of the transformation applied (0 = none)
    other,      \* pair run: the second board B'
    keyA,       \* pair run: getCanonicalKey(input)
    keyB,       \* pair run: getCanonicalKey(other)
    pc,         \* position of the run
    arg,        \* generation: the board passed to the solve call in progress
    result,     \* generation: the score returned by the last solve call
    stack,      \* generation: frames of the unsolved solve calls in progress
    memo,       \* generation: canonical key -> memoized absolute score
    states,     \* generation: canonical key -> record, filled while solving
    gameTree,   \* the emitted table (NoTable until written)
    rootValue,  \* generation: the value solve(emptyBoard) returned
    loader,     \* consumer: the GameTreeLoader singleton (gameTree, isLoaded)
    app,        \* consumer: how far App.init has come
    ui          \* consumer: GameModes, BoardRenderer, the page and the timers

vars == <<input, board, str, key, perm, other, keyA, keyB, pc, arg, result, stack,
          memo, states, gameTree, rootValue, loader, app, ui>>

codecVars == <<input, board, str, key, perm>>
pairVars  == <<other, keyA, keyB>>
solveVars == <<arg, result, stack, memo, states, gameTree, rootValue>>
appVars   == <<loader, app, ui>>

----------------------------------------------------------------------------
(* Constants of boardState.js *)

EMPTY == 0
X_PLAYER == 1
O_PLAYER == 2

CELLS == 9

Positions == 0 .. (CELLS - 1)

\* the anti-diagonal left out
WIN_PATTERNS_missingDiagonal ==
    << <<0, 1, 2>>, <<3, 4, 5>>, <<6, 7, 8>>,
       <<0, 3, 6>>, <<1, 4, 7>>, <<2, 5, 8>>,
       <<0, 4, 8>> >>

WIN_PATTERNS ==
    << <<0, 1, 2>>, <<3, 4, 5>>, <<6, 7, 8>>,
       <<0, 3, 6>>, <<1, 4, 7>>, <<2, 5, 8>>,
       <<0, 4, 8>>, <<2, 4, 6>> >>

\* a slip in the last table: two entries exchanged
TRANSFORMATIONS_typo ==
    << <<0, 1, 2, 3, 4, 5, 6, 7, 8>>,
       <<6, 3, 0, 7, 4, 1, 8, 5, 2>>,
       <<8, 7, 6, 5, 4, 3, 2, 1, 0>>,
       <<2, 5, 8, 1, 4, 7, 0, 3, 6>>,
       <<2, 1, 0, 5, 4, 3, 8, 7, 6>>,
       <<6, 7, 8, 3, 4, 5, 0, 1, 2>>,
       <<0, 3, 6, 1, 4, 7, 2, 5, 8>>,
       <<8, 5, 2, 7, 4, 1, 6, 0, 3>> >>

TRANSFORMATIONS ==
    << <<0, 1, 2, 3, 4, 5, 6, 7, 8>>,
       <<6, 3, 0, 7, 4, 1, 8, 5, 2>>,
       <<8, 7, 6, 5, 4, 3, 2, 1, 0>>,
       <<2, 5, 8, 1, 4, 7, 0, 3, 6>>,
       <<2, 1, 0, 5, 4, 3, 8, 7, 6>>,
       <<6, 7, 8, 3, 4, 5, 0, 1, 2>>,
       <<0, 3, 6, 1, 4, 7, 2, 5, 8>>,
       <<8, 5, 2, 7, 4, 1, 6, 3, 0>> >>

----------------------------------------------------------------------------
(* Strings: decimal digits, their code units, lexicographic order *)

Digits == <<"0", "1", "2", "3", "4", "5", "6", "7", "8", "9">>

\* the value parseInt gives for a character that is no digit
NaN == -2
NoStr == "NoStr"
NoBoard == "NoBoard"
NoTable == "NoTable"
NoScore == "NoScore"

\* Number.prototype.toString of a non-negative integer, as join('') applies it
RECURSIVE NumToString(_)
NumToString(n) ==
    IF n < 10 THEN <<Digits[n + 1]>>
    ELSE NumToString(n \div 10) \o <<Digits[(n % 10) + 1]>>

\* parseInt of a one-character string
parseInt(c) ==
    CASE c = "0" -> 0 [] c = "1" -> 1 [] c = "2" -> 2 [] c = "3" -> 3
      [] c = "4" -> 4 [] c = "5" -> 5 [] c = "6" -> 6 [] c = "7" -> 7
      [] c = "8" -> 8 [] c = "9" -> 9 [] OTHER -> NaN

\* UTF-16 code unit of a character of a key
CharCode(c) ==
    CASE c = "0" -> 48 [] c = "1" -> 49 [] c = "2" -> 50 [] c = "3" -> 51
      [] c = "4" -> 52 [] c = "5" -> 53 [] c = "6" -> 54 [] c = "7" -> 55
      [] c = "8" -> 56 [] c = "9" -> 57 [] OTHER -> 78

\* a < b from character i on, in the order of the code units
RECURSIVE StrLessFrom(_, _, _)
StrLessFrom(a, b, i) ==
    IF i > Len(b) THEN FALSE
    ELSE IF i > Len(a) THEN TRUE
    ELSE IF a[i] = b[i] THEN StrLessFrom(a, b, i + 1)
    ELSE CharCode(a[i]) < CharCode(b[i])

\* the comparison the wrong way round: the sort comes out descending
StrLess_descending(a, b) == StrLessFrom(b, a, 1)

\* a < b in the order Array.prototype.sort uses by default
StrLess(a, b) == StrLessFrom(a, b, 1)

\* insert s into the ascending sequence sorted
RECURSIVE InsertSorted(_, _)
InsertSorted(s, sorted) ==
    IF sorted = <<>> THEN <<s>>
    ELSE IF StrLess(s, Head(sorted)) THEN <<s>> \o sorted
    ELSE <<Head(sorted)>> \o InsertSorted(s, Tail(sorted))

\* Array.prototype.sort() without a comparator on an array of strings
RECURSIVE Sort(_)
Sort(a) ==
    IF a = <<>> THEN <<>> ELSE InsertSorted(Head(a), Sort(Tail(a)))

----------------------------------------------------------------------------
(* BoardState: codec and symmetry reduction *)

\* board.join('')
RECURSIVE JoinFrom(_, _, _)
JoinFrom(b, i, length) ==
    IF i >= length THEN <<>>
    ELSE NumToString(b[i]) \o JoinFrom(b, i + 1, length)

\* board.join() with the default separator
RECURSIVE JoinCommaFrom(_, _, _)
JoinCommaFrom(b, i, length) ==
    IF i >= length THEN <<>>
    ELSE IF i = 0 THEN NumToString(b[i]) \o JoinCommaFrom(b, i + 1, length)
    ELSE <<",">> \o NumToString(b[i]) \o JoinCommaFrom(b, i + 1, length)

boardToString_defaultJoin(b) == JoinCommaFrom(b, 0, Cardinality(DOMAIN b))

boardToString(b) == JoinFrom(b, 0, Cardinality(DOMAIN b))

\* an index slip: every cell read one character too far, wrapping round
stringToBoard_shifted(boardStr) ==
    [i \in 0 .. (Len(boardStr) - 1) |->
        parseInt(boardStr[((i + 1) % Len(boardStr)) + 1])]

\* boardStr.split('').map(c => parseInt(c))
stringToBoard(boardStr) ==
    [i \in 0 .. (Len(boardStr) - 1) |-> parseInt(boardStr[i + 1])]

\* transformation.map(i => board[i])
applyTransformation(b, transformation) ==
    [j \in 0 .. (Len(transformation) - 1) |-> b[transformation[j + 1]]]

\* TRANSFORMATIONS.map(t => boardToString(applyTransformation(board, t)))
RECURSIVE MapVersions(_, _)
MapVersions(b, t) ==
    IF t > Len(TRANSFORMATIONS) THEN <<>>
    ELSE <<boardToString(applyTransformation(b, TRANSFORMATIONS[t]))>>
            \o MapVersions(b, t + 1)

\* the sort forgotten: the first version is returned
getCanonicalKey_unsorted(b) ==
    LET allVersions == MapVersions(b, 1)
    IN  allVersions[1]

getCanonicalKey(b) ==
    LET allVersions == MapVersions(b, 1)
    IN  Sort(allVersions)[1]

\* first winning pattern in scan order, 0 when none
WinningPattern(b) ==
    IF \E p \in 1 .. Len(WIN_PATTERNS) :
            /\ b[WIN_PATTERNS[p][1]] # EMPTY
            /\ b[WIN_PATTERNS[p][1]] = b[WIN_PATTERNS[p][2]]
            /\ b[WIN_PATTERNS[p][2]] = b[WIN_PATTERNS[p][3]]
    THEN CHOOSE p \in 1 .. Len(WIN_PATTERNS) :
            /\ b[WIN_PATTERNS[p][1]] # EMPTY
            /\ b[WIN_PATTERNS[p][1]] = b[WIN_PATTERNS[p][2]]
            /\ b[WIN_PATTERNS[p][2]] = b[WIN_PATTERNS[p][3]]
            /\ \A q \in 1 .. (p - 1) :
                ~ /\ b[WIN_PATTERNS[q][1]] # EMPTY
                  /\ b[WIN_PATTERNS[q][1]] = b[WIN_PATTERNS[q][2]]
                  /\ b[WIN_PATTERNS[q][2]] = b[WIN_PATTERNS[q][3]]
    ELSE 0

\* the value checkWinner returns when no line is complete
null == -1

\* the board[a] !== EMPTY test left out: three empty cells count as a line
checkWinner_noEmptyTest(b) ==
    IF \E p \in 1 .. Len(WIN_PATTERNS) :
            /\ b[WIN_PATTERNS[p][1]] = b[WIN_PATTERNS[p][2]]
            /\ b[WIN_PATTERNS[p][2]] = b[WIN_PATTERNS[p][3]]
    THEN LET first == CHOOSE p \in 1 .. Len(WIN_PATTERNS) :
                /\ b[WIN_PATTERNS[p][1]] = b[WIN_PATTERNS[p][2]]
                /\ b[WIN_PATTERNS[p][2]] = b[WIN_PATTERNS[p][3]]
                /\ \A q \in 1 .. (p - 1) :
                    ~ /\ b[WIN_PATTERNS[q][1]] = b[WIN_PATTERNS[q][2]]
                      /\ b[WIN_PATTERNS[q][2]] = b[WIN_PATTERNS[q][3]]
         IN  b[WIN_PATTERNS[first][1]]
    ELSE null

\* the winner reported as X whoever holds the line
checkWinner_returnsX(b) ==
    IF WinningPattern(b) = 0 THEN null ELSE X_PLAYER

\* X_PLAYER, O_PLAYER, or null
checkWinner(b) ==
    IF WinningPattern(b) = 0 THEN null
    ELSE b[WIN_PATTERNS[WinningPattern(b)][1]]

\* board.includes(EMPTY)
includesEmpty(b) == \E i \in DOMAIN b : b[i] = EMPTY

\* the winner test left out: only a full board ends the game
isTerminal_fullOnly(b) == ~ includesEmpty(b)

isTerminal(b) == checkWinner(b) # null \/ ~ includesEmpty(b)

\* BoardState.getPlayerSymbol
getPlayerSymbol(player) ==
    IF player = X_PLAYER THEN "X"
    ELSE IF player = O_PLAYER THEN "O"
    ELSE ""

\* the full-board test made before the winner tests
getGameStatus_drawFirst(b) ==
    IF ~ includesEmpty(b) THEN [over |-> TRUE, winner |-> "null", draw |-> TRUE]
    ELSE IF checkWinner(b) = X_PLAYER THEN [over |-> TRUE, winner |-> "X", draw |-> FALSE]
    ELSE IF checkWinner(b) = O_PLAYER THEN [over |-> TRUE, winner |-> "O", draw |-> FALSE]
    ELSE [over |-> FALSE, winner |-> "null", draw |-> FALSE]

\* BoardState.getGameStatus
getGameStatus(b) ==
    IF checkWinner(b) = X_PLAYER THEN [over |-> TRUE, winner |-> "X", draw |-> FALSE]
    ELSE IF checkWinner(b) = O_PLAYER THEN [over |-> TRUE, winner |-> "O", draw |-> FALSE]
    ELSE IF ~ includesEmpty(b) THEN [over |-> TRUE, winner |-> "null", draw |-> TRUE]
    ELSE [over |-> FALSE, winner |-> "null", draw |-> FALSE]

\* +1 if the line is X's, -1 if it is O's, 0 for a full board with no line
TerminalScore(b) ==
    IF checkWinner(b) = X_PLAYER THEN 1
    ELSE IF checkWinner(b) = O_PLAYER THEN -1
    ELSE 0

\* board.filter(c => c === v).length
CountOf(b, v) == Cardinality({i \in DOMAIN b : b[i] = v})

\* the parity test inverted: O moves when the counts are equal
getCurrentPlayer_OFirst(b) ==
    IF CountOf(b, X_PLAYER) = CountOf(b, O_PLAYER) THEN O_PLAYER ELSE X_PLAYER

getCurrentPlayer(b) ==
    IF CountOf(b, X_PLAYER) = CountOf(b, O_PLAYER) THEN X_PLAYER ELSE O_PLAYER

\* the empty positions in increasing order
RECURSIVE LegalFrom(_, _)
LegalFrom(b, i) ==
    IF i \notin DOMAIN b THEN <<>>
    ELSE IF b[i] = EMPTY THEN <<i>> \o LegalFrom(b, i + 1)
    ELSE LegalFrom(b, i + 1)

\* the empty positions pushed to the front: decreasing order
RECURSIVE LegalDownFrom(_, _)
LegalDownFrom(b, i) ==
    IF i \notin DOMAIN b THEN <<>>
    ELSE IF b[i] = EMPTY THEN <<i>> \o LegalDownFrom(b, i - 1)
    ELSE LegalDownFrom(b, i - 1)

getLegalMoves_descending(b) == LegalDownFrom(b, CELLS - 1)

getLegalMoves(b) == LegalFrom(b, 0)

MoveError == "Invalid move: position already occupied"

\* the player argument ignored: every mark is an X
makeMoveArgument_inPlace(b, position, player) ==
    IF b[position] # EMPTY THEN b
    ELSE [b EXCEPT ![position] = player]

\* the array passed to BoardState.makeMove, as the call leaves it: the move
\* is written to the copy [...board], never to the array passed
makeMoveArgument(b, position, player) == b

makeMove_alwaysX(b, position, player) ==
    IF b[position] # EMPTY THEN MoveError
    ELSE [b EXCEPT ![position] = X_PLAYER]

makeMove(b, position, player) ==
    IF b[position] # EMPTY THEN MoveError
    ELSE [b EXCEPT ![position] = player]

createEmpty == [i \in Positions |-> EMPTY]

----------------------------------------------------------------------------
(* Inputs *)

Cells == {EMPTY, X_PLAYER, O_PLAYER}

Boards == [Positions -> Cells]

\* the pair run compares boards holding at most MaxMarks marks
MaxMarks == 2

\* the Board invariant of the data model: X moved first, turns alternate
LegalCounts(b) == CountOf(b, X_PLAYER) - CountOf(b, O_PLAYER) \in {0, 1}

SmallBoards ==
    {b \in Boards : CountOf(b, EMPTY) >= CELLS - MaxMarks /\ LegalCounts(b)}

IdleCodec ==
    /\ input = NoBoard
    /\ board = NoBoard
    /\ str = NoStr
    /\ key = NoStr
    /\ perm = 0

IdlePair ==
    /\ other = NoBoard
    /\ keyA = NoStr
    /\ keyB = NoStr

IdleSolve ==
    /\ arg = NoBoard
    /\ result = NoScore
    /\ stack = <<>>
    /\ memo = <<>>
    /\ states = <<>>
    /\ gameTree = NoTable
    /\ rootValue = NoScore

\* no uncaught exception so far
NoError == "NoError"

\* new GameTreeLoader(): gameTree null, isLoaded false; once loaded, gameTree
\* names the parsed content of game_tree.json
GameTreeLoader == [gameTree |-> NoTable, isLoaded |-> FALSE]

\* the page and new GameModes() before any mode is started: currentMode and
\* currentBoard null, no renderer click handler, no listener on any cell
GameModes ==
    [currentMode |-> "null",
     currentBoard |-> NoBoard,
     hintsVisible |-> TRUE,
     onCellClick |-> "null",
     listeners |-> 0,
     disabled |-> {},
     feedback |-> [msg |-> "", type |-> "", pos |-> 0],
     currentTurn |-> "",
     bestOutcome |-> "",
     outcomePanel |-> [kind |-> "", now |-> <<>>],
     quizListeners |-> <<>>,
     timers |-> EmptyBag,
     gameTree |-> NoTable,
     thrown |-> NoError,
     abort |-> FALSE]

IdleApp ==
    /\ loader = GameTreeLoader
    /\ app = "constructed"
    /\ ui = GameModes

----------------------------------------------------------------------------
(* Codec run: one board through the codec and the symmetry reducer *)

InitCodec ==
    /\ input \in Boards
    /\ board = input
    /\ str = NoStr
    /\ key = NoStr
    /\ perm = 0
    /\ pc = "start"
    /\ IdlePair
    /\ IdleSolve
    /\ IdleApp

\* BoardState.applyTransformation(board, TRANSFORMATIONS[t])
Transform(t) ==
    /\ pc = "keyed"
    /\ board' = applyTransformation(board, TRANSFORMATIONS[t])
    /\ perm' = t
    /\ pc' = "transformed"
    /\ UNCHANGED <<input, str, key>>
    /\ UNCHANGED pairVars
    /\ UNCHANGED appVars
    /\ UNCHANGED solveVars

\* BoardState.boardToString(board)
Encode ==
    /\ pc = "start"
    /\ str' = boardToString(board)
    /\ pc' = "encoded"
    /\ UNCHANGED <<input, board, key, perm>>
    /\ UNCHANGED pairVars
    /\ UNCHANGED appVars
    /\ UNCHANGED solveVars

\* BoardState.stringToBoard(str)
Decode ==
    /\ pc \in {"encoded", "keyed"}
    /\ board' = stringToBoard(str)
    /\ pc' = IF pc = "encoded" THEN "decoded" ELSE "keydecoded"
    /\ UNCHANGED <<input, str, key, perm>>
    /\ UNCHANGED pairVars
    /\ UNCHANGED appVars
    /\ UNCHANGED solveVars

\* BoardState.getCanonicalKey(board); key keeps the first key of the run
Canonicalize ==
    /\ pc \in {"start", "transformed", "keydecoded"}
    /\ str' = getCanonicalKey(board)
    /\ key' = IF pc = "start" THEN str' ELSE key
    /\ pc' = CASE pc = "start" -> "keyed"
               [] pc = "transformed" -> "imagekeyed"
               [] pc = "keydecoded" -> "rekeyed"
    /\ UNCHANGED <<input, board, perm>>
    /\ UNCHANGED pairVars
    /\ UNCHANGED appVars
    /\ UNCHANGED solveVars

\* BoardState.isTerminal(board), BoardState.getGameStatus(board) and the
\* score the solver gives the board when it is terminal
Judge ==
    /\ pc = "start"
    /\ result' = [terminal |-> isTerminal(board),
                  status |-> getGameStatus(board),
                  score |-> TerminalScore(board)]
    /\ pc' = "judged"
    /\ UNCHANGED <<arg, stack, memo, states, gameTree, rootValue>>
    /\ UNCHANGED codecVars
    /\ UNCHANGED pairVars
    /\ UNCHANGED appVars

NextCodec ==
    \/ \E t \in 1 .. Len(TRANSFORMATIONS) : Transform(t)
    \/ Encode
    \/ Decode
    \/ Canonicalize
    \/ Judge

SpecCodec == InitCodec /\ [][NextCodec]_vars

----------------------------------------------------------------------------
(* Raw run: the codec on input that nothing has validated *)

\* cell values a caller can pass: the three of the data model and one more
RawCells == Cells \cup {O_PLAYER + 1}

\* arrays of nine values holding at most MaxMarks non-empty ones, whatever
\* their counts of X and O
RawBoards ==
    {b \in [Positions -> RawCells] : CountOf(b, EMPTY) >= CELLS - MaxMarks}

SmallKeys == {boardToString(b) : b \in SmallBoards}

\* strings a caller can pass: keys, keys cut short by one character, keys
\* one character too long, keys with one character that is no cell symbol
RawKeys ==
    SmallKeys
        \cup {SubSeq(k, 1, CELLS - 1) : k \in SmallKeys}
        \cup {k \o <<"0">> : k \in SmallKeys}
        \cup {[k EXCEPT ![i] = c] :
                  k \in SmallKeys, i \in 1 .. CELLS, c \in {"3", "x"}}

InitRaw ==
    /\ \/ /\ pc = "rawBoard"
          /\ input \in RawBoards
          /\ str = NoStr
       \/ /\ pc = "rawKey"
          /\ input = NoBoard
          /\ str \in RawKeys
    /\ board = NoBoard
    /\ key = NoStr
    /\ perm = 0
    /\ IdlePair
    /\ IdleSolve
    /\ IdleApp

\* BoardState.boardToString(input): returns, there is no throw in it
EncodeRaw ==
    /\ pc = "rawBoard"
    /\ key' = boardToString(input)
    /\ pc' = "rawEncoded"
    /\ UNCHANGED <<input, board, str, perm>>
    /\ UNCHANGED pairVars
    /\ UNCHANGED solveVars
    /\ UNCHANGED appVars

\* BoardState.getCanonicalKey(input): returns, there is no throw in it
CanonicalizeRaw ==
    /\ pc = "rawBoard"
    /\ key' = getCanonicalKey(input)
    /\ pc' = "rawKeyed"
    /\ UNCHANGED <<input, board, str, perm>>
    /\ UNCHANGED pairVars
    /\ UNCHANGED solveVars
    /\ UNCHANGED appVars

\* BoardState.getCurrentPlayer(input): returns, there is no throw in it
CurrentPlayerRaw ==
    /\ pc = "rawBoard"
    /\ result' = getCurrentPlayer(input)
    /\ pc' = "rawPlayer"
    /\ UNCHANGED <<arg, stack, memo, states, gameTree, rootValue>>
    /\ UNCHANGED codecVars
    /\ UNCHANGED pairVars
    /\ UNCHANGED appVars

\* BoardState.stringToBoard(str): returns, there is no throw in it
DecodeRaw ==
    /\ pc = "rawKey"
    /\ board' = stringToBoard(str)
    /\ pc' = "rawDecoded"
    /\ UNCHANGED <<input, str, key, perm>>
    /\ UNCHANGED pairVars
    /\ UNCHANGED solveVars
    /\ UNCHANGED appVars

NextRaw ==
    \/ EncodeRaw
    \/ CanonicalizeRaw
    \/ CurrentPlayerRaw
    \/ DecodeRaw

SpecRaw == InitRaw /\ [][NextRaw]_vars

----------------------------------------------------------------------------
(* Pair run: the canonical keys of two boards *)

InitPair ==
    /\ input \in SmallBoards
    /\ other \in SmallBoards
    /\ board = input
    /\ str = NoStr
    /\ key = NoStr
    /\ perm = 0
    /\ keyA = NoStr
    /\ keyB = NoStr
    /\ pc = "pair"
    /\ IdleSolve
    /\ IdleApp

\* BoardState.getCanonicalKey on each of the two boards
CanonicalizePair ==
    /\ pc = "pair"
    /\ keyA' = getCanonicalKey(input)
    /\ keyB' = getCanonicalKey(other)
    /\ pc' = "paired"
    /\ UNCHANGED <<other>>
    /\ UNCHANGED appVars
    /\ UNCHANGED codecVars
    /\ UNCHANGED solveVars

NextPair == CanonicalizePair

SpecPair == InitPair /\ [][NextPair]_vars

----------------------------------------------------------------------------
(* Generation run: the memoized minimax recursion and the table it emits *)

\* the child board of frame f for its cell number n
ChildBoard(f, n) == makeMove(f.board, f.cells[n], f.mover)

RECURSIVE MaxScore(_, _)
MaxScore(moves, i) ==
    IF i = Len(moves) THEN moves[i].minimax_score
    ELSE LET rest == MaxScore(moves, i + 1)
         IN  IF moves[i].minimax_score > rest
             THEN moves[i].minimax_score ELSE rest

RECURSIVE MinScore(_, _)
MinScore(moves, i) ==
    IF i = Len(moves) THEN moves[i].minimax_score
    ELSE LET rest == MinScore(moves, i + 1)
         IN  IF moves[i].minimax_score < rest
             THEN moves[i].minimax_score ELSE rest

\* the polarity ignored: the maximum whoever moves
Outcome_alwaysMax(mover, moves) == MaxScore(moves, 1)

\* max over the child scores when X moves, min when O moves
Outcome(mover, moves) ==
    IF mover = X_PLAYER THEN MaxScore(moves, 1) ELSE MinScore(moves, 1)

\* optimal taken as "not below the outcome" whoever moves
NextMoves_notBelow(moves, outcome) ==
    [i \in 1 .. Len(moves) |->
        [pos |-> moves[i].pos,
         to_board |-> moves[i].to_board,
         minimax_score |-> moves[i].minimax_score,
         is_optimal |-> (moves[i].minimax_score >= outcome)]]

\* the per-move list of a record
NextMoves(moves, outcome) ==
    [i \in 1 .. Len(moves) |->
        [pos |-> moves[i].pos,
         to_board |-> moves[i].to_board,
         minimax_score |-> moves[i].minimax_score,
         is_optimal |-> (moves[i].minimax_score = outcome)]]

\* the lowest position among the optimal moves
WinningMovePos(next_moves) ==
    LET first == CHOOSE i \in 1 .. Len(next_moves) :
                    /\ next_moves[i].is_optimal
                    /\ \A j \in 1 .. (i - 1) : ~ next_moves[j].is_optimal
    IN  next_moves[first].pos

GameState(f) ==
    LET outcome == Outcome(f.mover, f.moves)
        next_moves == NextMoves(f.moves, outcome)
    IN  [turn |-> f.mover,
         best_outcome |-> outcome,
         next_moves |-> next_moves,
         winning_move_pos |-> WinningMovePos(next_moves)]

\* the frame of an unsolved solve call: the board, its canonical key, the
\* side to move, the empty cells in position order, the moves scored so far
NewFrame(b) ==
    [board |-> b,
     key |-> getCanonicalKey(b),
     mover |-> getCurrentPlayer(b),
     cells |-> getLegalMoves(b),
     moves |-> <<>>]

\* the frame after its next child, the board child, came back with score
AddMove(f, child, score) ==
    [f EXCEPT !.moves =
        Append(f.moves, [pos |-> f.cells[Len(f.moves) + 1],
                         to_board |-> boardToString(child),
                         minimax_score |-> score])]

\* solve steps 5 and 6: memoize the outcome, record the state, return it
Recorded(f, record, st) ==
    [memo |-> (f.key :> record.best_outcome) @@ st.memo,
     states |-> (f.key :> record) @@ st.states,
     score |-> record.best_outcome]

\* solve(b) as the recursive function it is: st holds the memo and the
\* records before the call, the value those after it and the score returned
RECURSIVE solve(_, _)
RECURSIVE SolveChildren(_, _)
SolveChild(f, child, st) == SolveChildren(AddMove(f, child, st.score), st)

SolveChildren(f, st) ==
    IF Len(f.moves) = Len(f.cells)
    THEN Recorded(f, GameState(f), st)
    ELSE SolveChild(f, ChildBoard(f, Len(f.moves) + 1),
                    solve(ChildBoard(f, Len(f.moves) + 1), st))

solve(b, st) ==
    IF isTerminal(b) THEN [st EXCEPT !.score = TerminalScore(b)]
    ELSE IF getCanonicalKey(b) \in DOMAIN st.memo
         THEN [st EXCEPT !.score = st.memo[getCanonicalKey(b)]]
         ELSE SolveChildren(NewFrame(b), st)

InitSolve ==
    /\ pc = "init"
    /\ IdleCodec
    /\ IdlePair
    /\ IdleSolve
    /\ IdleApp

\* the generation entry point calls solve(emptyBoard)
Start ==
    /\ pc = "init"
    /\ arg' = createEmpty
    /\ pc' = "call"
    /\ UNCHANGED <<result, stack, memo, states, gameTree, rootValue>>
    /\ UNCHANGED codecVars
    /\ UNCHANGED pairVars
    /\ UNCHANGED appVars

\* solve step 1: a terminal board returns its terminal score, nothing is cached
SolveTerminal ==
    /\ pc = "call"
    /\ isTerminal(arg)
    /\ result' = TerminalScore(arg)
    /\ pc' = "return"
    /\ UNCHANGED <<arg, stack, memo, states, gameTree, rootValue>>
    /\ UNCHANGED codecVars
    /\ UNCHANGED pairVars
    /\ UNCHANGED appVars

\* solve step 2: a memoized key returns the memoized absolute score
SolveCached ==
    /\ pc = "call"
    /\ ~ isTerminal(arg)
    /\ getCanonicalKey(arg) \in DOMAIN memo
    /\ result' = memo[getCanonicalKey(arg)]
    /\ pc' = "return"
    /\ UNCHANGED <<arg, stack, memo, states, gameTree, rootValue>>
    /\ UNCHANGED codecVars
    /\ UNCHANGED pairVars
    /\ UNCHANGED appVars

SolveUnsolved_ignoresMemo ==
    /\ pc = "call"
    /\ ~ isTerminal(arg)
    /\ LET f == NewFrame(arg)
       IN  /\ stack' = <<f>> \o stack
           /\ arg' = ChildBoard(f, 1)
    /\ pc' = "call"
    /\ UNCHANGED <<result, memo, states, gameTree, rootValue>>
    /\ UNCHANGED codecVars
    /\ UNCHANGED pairVars
    /\ UNCHANGED appVars

\* solve step 3: an unsolved board opens a frame and solves its first child
SolveUnsolved ==
    /\ pc = "call"
    /\ ~ isTerminal(arg)
    /\ getCanonicalKey(arg) \notin DOMAIN memo
    /\ LET f == NewFrame(arg)
       IN  /\ stack' = <<f>> \o stack
           /\ arg' = ChildBoard(f, 1)
    /\ pc' = "call"
    /\ UNCHANGED <<result, memo, states, gameTree, rootValue>>
    /\ UNCHANGED codecVars
    /\ UNCHANGED pairVars
    /\ UNCHANGED appVars

\* solve step 3 to 6 in one step: the call on an unsolved board runs to its
\* return, the calls on its descendants included
SolveWhole ==
    /\ pc = "call"
    /\ ~ isTerminal(arg)
    /\ getCanonicalKey(arg) \notin DOMAIN memo
    /\ LET st == solve(arg, [memo |-> memo, states |-> states, score |-> result])
       IN  /\ memo' = st.memo
           /\ states' = st.states
           /\ result' = st.score
    /\ pc' = "return"
    /\ UNCHANGED <<arg, stack, gameTree, rootValue>>
    /\ UNCHANGED codecVars
    /\ UNCHANGED pairVars
    /\ UNCHANGED appVars

\* solve step 3, continued: a child's score comes back to the frame on top
\* the move of the child left unrecorded: the same child is solved again
ChildReturn_sameChild ==
    /\ pc = "return"
    /\ stack # <<>>
    /\ arg' = ChildBoard(Head(stack), Len(Head(stack).moves) + 1)
    /\ pc' = "call"
    /\ UNCHANGED <<result, stack, memo, states, gameTree, rootValue>>
    /\ UNCHANGED codecVars
    /\ UNCHANGED pairVars
    /\ UNCHANGED appVars

ChildReturn ==
    /\ pc = "return"
    /\ stack # <<>>
    /\ LET f == Head(stack)
           n == Len(f.moves) + 1
           g == AddMove(f, arg, result)
       IN  /\ stack' = <<g>> \o Tail(stack)
           /\ IF n < Len(f.cells)
              THEN /\ arg' = ChildBoard(f, n + 1)
                   /\ pc' = "call"
              ELSE /\ arg' = f.board
                   /\ pc' = "aggregate"
    /\ UNCHANGED <<result, memo, states, gameTree, rootValue>>
    /\ UNCHANGED codecVars
    /\ UNCHANGED pairVars
    /\ UNCHANGED appVars

\* solve steps 4 to 6: aggregate, memoize, record, return the outcome
Aggregate ==
    /\ pc = "aggregate"
    /\ LET f == Head(stack)
           st == Recorded(f, GameState(f),
                          [memo |-> memo, states |-> states, score |-> result])
       IN  /\ memo' = st.memo
           /\ states' = st.states
           /\ result' = st.score
           /\ arg' = f.board
    /\ stack' = Tail(stack)
    /\ pc' = "return"
    /\ UNCHANGED <<gameTree, rootValue>>
    /\ UNCHANGED codecVars
    /\ UNCHANGED pairVars
    /\ UNCHANGED appVars

\* solve(emptyBoard) has returned to the entry point
RootReturn ==
    /\ pc = "return"
    /\ stack = <<>>
    /\ rootValue' = result
    /\ pc' = "serialize"
    /\ UNCHANGED <<arg, result, stack, memo, states, gameTree>>
    /\ UNCHANGED codecVars
    /\ UNCHANGED pairVars
    /\ UNCHANGED appVars

\* the serializer emits one record per discovered canonical key
Serialize ==
    /\ pc = "serialize"
    /\ gameTree' = [k \in DOMAIN states |-> states[k]]
    /\ pc' = "done"
    /\ UNCHANGED <<arg, result, stack, memo, states, rootValue>>
    /\ UNCHANGED codecVars
    /\ UNCHANGED pairVars
    /\ UNCHANGED appVars

NextSolve ==
    \/ Start
    \/ SolveTerminal
    \/ SolveCached
    \/ SolveUnsolved
    \/ SolveWhole
    \/ ChildReturn
    \/ Aggregate
    \/ RootReturn
    \/ Serialize

SpecSolve == InitSolve /\ [][NextSolve]_vars

\* ENABLED NextSolve written out: a step can be taken until the table is
\* emitted
SolveCanStep == pc # "done"

\* the generation run is one thread that runs to completion, the step it is
\* at is taken: weak fairness of the run, WF_vars(NextSolve), with its
\* ENABLED written as SolveCanStep and a step of the run read off pc and the
\* stack, one of which every step changes
StepsTaken ==
    \/ []<>(~ SolveCanStep)
    \/ []<><<TRUE>>_<<pc, stack>>

\* the generation run before solve is called, the variables it has not
\* assigned yet holding a value of the kind they will hold
InitSolveFair ==
    /\ pc = "init"
    /\ arg = createEmpty
    /\ result = 0
    /\ stack = <<>>
    /\ memo = <<>>
    /\ states = <<>>
    /\ gameTree = <<>>
    /\ rootValue = 0
    /\ IdleCodec
    /\ IdlePair
    /\ IdleApp

SpecSolveFair == InitSolveFair /\ [][NextSolve]_vars /\ StepsTaken

\* the board of the second verification scenario: X at positions 0 and 1
Scenario2 == <<"1", "1", "0", "0", "0", "0", "0", "0", "0">>

\* a run of the solver on a given board instead of the empty board
InitScenario ==
    /\ pc = "init"
    /\ input = stringToBoard(Scenario2)
    /\ board = NoBoard
    /\ str = NoStr
    /\ key = NoStr
    /\ perm = 0
    /\ IdlePair
    /\ IdleSolve
    /\ IdleApp

\* the entry point calls solve(input)
StartInput ==
    /\ pc = "init"
    /\ arg' = input
    /\ pc' = "call"
    /\ UNCHANGED <<result, stack, memo, states, gameTree, rootValue>>
    /\ UNCHANGED codecVars
    /\ UNCHANGED pairVars
    /\ UNCHANGED appVars

NextScenario ==
    \/ StartInput
    \/ SolveTerminal
    \/ SolveCached
    \/ SolveUnsolved
    \/ SolveWhole
    \/ ChildReturn
    \/ Aggregate
    \/ RootReturn
    \/ Serialize

SpecScenario == InitScenario /\ [][NextScenario]_vars

----------------------------------------------------------------------------
(* Consumer: the loader's lookups, the renderer and the info panels *)

\* the boards numbered in base 3, the cell at position 0 the lowest digit
RECURSIVE BoardCode(_, _)
BoardCode(b, i) ==
    IF i = CELLS THEN 0 ELSE b[i] + 3 * BoardCode(b, i + 1)

BoardOfCode(n) == [i \in Positions |-> (n \div 3 ^ i) % 3]

\* BoardState.getCanonicalKey of the boards numbered lo to hi, in that order;
\* only the boards with the counts of a game are tabulated
RECURSIVE Tabulate(_, _)
Tabulate(lo, hi) ==
    IF lo = hi
    THEN IF LegalCounts(BoardOfCode(lo))
         THEN <<getCanonicalKey(BoardOfCode(lo))>>
         ELSE <<NoStr>>
    ELSE Tabulate(lo, (lo + hi) \div 2) \o Tabulate((lo + hi) \div 2 + 1, hi)

CanonicalKeys == Tabulate(0, 3 ^ CELLS - 1)

\* a call BoardState.getCanonicalKey(b) of the page: read off the table when
\* b is tabulated, evaluated otherwise
CanonicalKey(b) ==
    IF LegalCounts(b) THEN CanonicalKeys[BoardCode(b, 0) + 1]
    ELSE getCanonicalKey(b)

\* the content of game_tree.json: the table a generation run emits
GameTreeJson ==
    solve(createEmpty, [memo |-> <<>>, states |-> <<>>, score |-> 0]).states

\* null where the code expects a state record
nullState == [isNull |-> TRUE]

NotLoaded == "Game tree not loaded"

\* a call that threw: the error it threw
Threw(v) == "error" \in DOMAIN v

\* the handler running on s throws e: the rest of it is skipped
Throw(s, e) == [s EXCEPT !.thrown = e, !.abort = TRUE]

getState_throwsOnMissing(table, canonicalKey) ==
    IF ~ loader.isLoaded THEN [error |-> NotLoaded]
    ELSE IF canonicalKey \in DOMAIN table
         THEN table[canonicalKey]
         ELSE [error |-> "State not found"]

\* GameTreeLoader.getState: this.gameTree[canonicalKey] || null, table
\* being the table this.gameTree names
getState(table, canonicalKey) ==
    IF ~ loader.isLoaded THEN [error |-> NotLoaded]
    ELSE IF canonicalKey \in DOMAIN table
         THEN table[canonicalKey]
         ELSE nullState

\* GameTreeLoader.getAllNonTerminalStates: Object.keys(this.gameTree)
getAllNonTerminalStates(table) ==
    IF ~ loader.isLoaded THEN [error |-> NotLoaded]
    ELSE [keys |-> DOMAIN table]

\* GameTreeLoader.getRandomState: one of the keys getAllNonTerminalStates
\* returns, randomKey being the one Math.random selects
getRandomState(table, randomKey) ==
    IF Threw(getAllNonTerminalStates(table))
    THEN getAllNonTerminalStates(table)
    ELSE [key |-> randomKey]

\* BoardRenderer.render: the marked cells are disabled, the others enabled
render_allEnabled(s, b) == [s EXCEPT !.disabled = {}]

render(s, b) ==
    [s EXCEPT !.disabled = {i \in Positions : b[i] \in {X_PLAYER, O_PLAYER}}]

\* BoardRenderer.enableClicks: the handler is replaced and every cell gets one
\* more click listener
enableClicks(s, clickHandler) ==
    [s EXCEPT !.onCellClick = clickHandler,
              !.listeners = s.listeners + 1]

\* BoardRenderer.disableClicks
disableClicks_none(s) == s

disableClicks(s) == [s EXCEPT !.disabled = Positions]

\* GameModes.showFeedback: the panel's content is replaced, and with it any
\* quiz buttons and the listeners they carried
showFeedback(s, message, type, position) ==
    [s EXCEPT !.feedback = [msg |-> message, type |-> type, pos |-> position],
              !.quizListeners = <<>>]

\* GameModes.getOutcomeText
getOutcomeText(score, currentPlayer) ==
    IF score = 1 THEN "X Wins"
    ELSE IF score = -1 THEN "O Wins"
    ELSE "Draw"

\* GameModes.updateInfoPanel once its three constants are bound
InfoPanel(s, currentPlayer, stateData, status) ==
    IF Threw(stateData) THEN Throw(s, stateData.error)
    ELSE [s EXCEPT
            !.currentTurn = getPlayerSymbol(currentPlayer),
            !.bestOutcome =
                IF stateData # nullState
                THEN getOutcomeText(stateData.best_outcome, currentPlayer)
                ELSE IF status.draw THEN "Draw"
                ELSE IF status.winner = "X" THEN "X Wins"
                ELSE IF status.winner = "O" THEN "O Wins"
                ELSE @]

\* GameModes.updateInfoPanel
updateInfoPanel(s, b) ==
    InfoPanel(s, getCurrentPlayer(b), getState(s.gameTree, CanonicalKey(b)),
              getGameStatus(b))

\* the moves exploreDepth records at depth 0, the level labelled 'Now'
NowMoves(stateData) ==
    [i \in 1 .. Len(stateData.next_moves) |->
        [pos |-> stateData.next_moves[i].pos,
         score |-> stateData.next_moves[i].minimax_score,
         optimal |-> stateData.next_moves[i].is_optimal]]

OutcomePanels_shiftsMoves(s, b, stateData) ==
    IF isTerminal(b)
    THEN [s EXCEPT !.outcomePanel = [kind |-> "Game Over", now |-> <<>>]]
    ELSE IF Threw(stateData) THEN Throw(s, stateData.error)
    ELSE IF stateData = nullState \/ Len(stateData.next_moves) = 0
    THEN [s EXCEPT !.outcomePanel =
                      [kind |-> "No moves available", now |-> <<>>]]
    ELSE [s EXCEPT !.outcomePanel =
                      [kind |-> "moves", now |-> NowMoves(stateData)],
                   !.gameTree[getCanonicalKey(b)].next_moves = <<>>]

\* GameModes.buildOutcomePanels once the lookup is bound; of the lists by
\* depth the panels show, the state keeps the one of the player to move at
\* depth 0
OutcomePanels(s, b, stateData) ==
    IF isTerminal(b)
    THEN [s EXCEPT !.outcomePanel = [kind |-> "Game Over", now |-> <<>>]]
    ELSE IF Threw(stateData) THEN Throw(s, stateData.error)
    ELSE IF stateData = nullState \/ Len(stateData.next_moves) = 0
    THEN [s EXCEPT !.outcomePanel =
                      [kind |-> "No moves available", now |-> <<>>]]
    ELSE [s EXCEPT !.outcomePanel =
                      [kind |-> "moves", now |-> NowMoves(stateData)]]

\* GameModes.buildOutcomePanels
buildOutcomePanels(s, b) ==
    OutcomePanels(s, b, getState(s.gameTree, CanonicalKey(b)))

----------------------------------------------------------------------------
(* Consumer: the three modes of GameModes *)

\* a pending setTimeout callback; key is the question the callback closed
\* over, clicks the number of cell clicks handled since it was scheduled
Timer(fn, k) == [fn |-> fn, key |-> k, clicks |-> 0]

setTimeout(s, fn, k) ==
    [s EXCEPT !.timers = s.timers (+) SetToBag({Timer(fn, k)})]

\* this.renderer.render(this.currentBoard)
Rendered(s) == render(s, s.currentBoard)

\* this.updateInfoPanel(this.currentBoard)
InfoUpdated(s) == updateInfoPanel(s, s.currentBoard)

\* this.buildOutcomePanels(this.currentBoard), unless the handler has thrown
PanelsBuilt(s) == IF s.abort THEN s ELSE buildOutcomePanels(s, s.currentBoard)

\* render, updateInfoPanel and buildOutcomePanels of the current board
Refresh(s) == PanelsBuilt(InfoUpdated(Rendered(s)))

\* GameModes.startPlayMode after the board is shown
PlayStarted(s) ==
    IF s.abort THEN s
    ELSE enableClicks(showFeedback(s, "Make your move to start!", "info", 0),
                      "handlePlayMove")

\* GameModes.startPlayMode
startPlayMode(s) ==
    PlayStarted(Refresh([s EXCEPT !.currentMode = "play",
                                  !.currentBoard = createEmpty]))

\* GameModes.handlePlayMove after the new board is shown
PlayMoved(s) ==
    IF s.abort THEN s
    ELSE IF isTerminal(s.currentBoard)
    THEN disableClicks(
             IF getGameStatus(s.currentBoard).draw
             THEN showFeedback(s, "Game ended in a draw!", "info", 0)
             ELSE showFeedback(s, "wins the game!", "optimal", 0))
    ELSE showFeedback(s, "played position", "info", 0)

\* GameModes.handlePlayMove
handlePlayMove(s, position) ==
    IF s.currentBoard[position] # EMPTY
    THEN showFeedback(s, "Cell already occupied", "error", 0)
    ELSE PlayMoved(Refresh([s EXCEPT !.currentBoard =
             makeMove(s.currentBoard, position,
                      getCurrentPlayer(s.currentBoard))]))

\* GameModes.loadRandomPosition after the board is shown
PositionLoaded(s) ==
    IF s.abort THEN s
    ELSE enableClicks(showFeedback(s, "Find the optimal move", "info", 0),
                      "handlePracticeMove")

\* GameModes.loadRandomPosition, randomKey being what getRandomState returned
loadRandomPosition(s, randomKey) ==
    IF ~ loader.isLoaded THEN Throw(s, NotLoaded)
    ELSE PositionLoaded(
             Refresh([s EXCEPT !.currentBoard = stringToBoard(randomKey)]))

\* GameModes.startPracticeMode
startPracticeMode(s, randomKey) ==
    loadRandomPosition([s EXCEPT !.currentMode = "practice"], randomKey)

\* the least index of a set of indices, 0 when it is empty
FirstIndex(matches) ==
    IF matches = {} THEN 0
    ELSE CHOOSE i \in matches : \A j \in matches : i <= j

\* to_board compared as it is stored, without its canonical key
FindMove_storedBoard(next_moves, newCanonicalKey) ==
    FirstIndex({i \in 1 .. Len(next_moves) :
                   next_moves[i].to_board = newCanonicalKey})

\* stateData.next_moves.find(m => canonical key of m.to_board === newCanonicalKey):
\* the index of the first such move, 0 when there is none
FindMove(next_moves, newCanonicalKey) ==
    FirstIndex({i \in 1 .. Len(next_moves) :
                   CanonicalKey(stringToBoard(next_moves[i].to_board))
                       = newCanonicalKey})

\* GameModes.handlePracticeMove: the verdict on the move found
PracticeJudged(s, stateData, moveData) ==
    IF moveData.is_optimal
    THEN showFeedback(s, "Perfect! That was an optimal move!", "optimal", 0)
    ELSE showFeedback(s, "Suboptimal. The optimal move was position",
                      "suboptimal", stateData.winning_move_pos + 1)

\* the setTimeout of the terminal board left out
PracticeRoundEnd_noTimer(s) == s

\* GameModes.handlePracticeMove: a terminal board schedules the next position
PracticeRoundEnd(s) ==
    IF isTerminal(s.currentBoard)
    THEN setTimeout(s, "loadRandomPosition", <<>>)
    ELSE s

\* GameModes.handlePracticeMove after the new board is shown
PracticeMoved(s, stateData, moveData) ==
    IF s.abort THEN s
    ELSE PracticeRoundEnd(PracticeJudged(s, stateData, moveData))

\* GameModes.handlePracticeMove once the move is searched: found is its
\* index in next_moves
PracticeFound(s, stateData, newBoard, found) ==
    IF found = 0
    THEN showFeedback(s, "Error: Move not found", "error", 0)
    ELSE PracticeMoved(Refresh([s EXCEPT !.currentBoard = newBoard]),
                       stateData, stateData.next_moves[found])

\* GameModes.handlePracticeMove once the state is looked up
PracticeLooked(s, stateData, newBoard) ==
    IF Threw(stateData) THEN Throw(s, stateData.error)
    ELSE IF stateData = nullState
    THEN showFeedback(s, "Error: State not found", "error", 0)
    ELSE PracticeFound(s, stateData, newBoard,
                       FindMove(stateData.next_moves, CanonicalKey(newBoard)))

\* GameModes.handlePracticeMove
handlePracticeMove(s, position) ==
    IF s.currentBoard[position] # EMPTY
    THEN showFeedback(s, "Cell already occupied", "error", 0)
    ELSE PracticeLooked(s,
             getState(s.gameTree, CanonicalKey(s.currentBoard)),
             makeMove(s.currentBoard, position,
                      getCurrentPlayer(s.currentBoard)))

QuizQuestion == "What is the outcome with optimal play?"

\* GameModes.loadQuizQuestion after the board is shown; the callback that
\* attaches the answer listeners closes over this question
QuestionShown(s, randomKey) ==
    IF s.abort THEN s
    ELSE setTimeout(showFeedback(s, QuizQuestion, "info", 0),
                    "attachQuizListeners", randomKey)

\* GameModes.loadQuizQuestion, randomKey being what getRandomState returned
loadQuizQuestion(s, randomKey) ==
    IF ~ loader.isLoaded THEN Throw(s, NotLoaded)
    ELSE QuestionShown(
             PanelsBuilt(InfoUpdated(disableClicks(Rendered(
                 [s EXCEPT !.currentBoard = stringToBoard(randomKey)])))),
             randomKey)

\* GameModes.startQuizMode
startQuizMode(s, randomKey) ==
    loadQuizQuestion([s EXCEPT !.currentMode = "quiz"], randomKey)

\* the callback of loadQuizQuestion: the buttons now in the page, if any, get
\* the listeners of the question k
attachQuizListeners(s, k) ==
    IF s.feedback.msg = QuizQuestion
    THEN [s EXCEPT !.quizListeners = Append(s.quizListeners, k)]
    ELSE s

\* the userAnswer a listener of question k passes for the button clicked
UserAnswer(button, k) ==
    LET currentPlayer == getCurrentPlayer(stringToBoard(k))
    IN  IF button = "quizWin" THEN (IF currentPlayer = X_PLAYER THEN 1 ELSE -1)
        ELSE IF button = "quizDraw" THEN 0
        ELSE (IF currentPlayer = X_PLAYER THEN -1 ELSE 1)

\* GameModes.handleQuizAnswer
handleQuizAnswer(s, userAnswer, stateData, currentPlayer) ==
    LET correctAnswer == stateData.best_outcome
    IN  setTimeout(
            IF userAnswer = correctAnswer
            THEN showFeedback(s, "Correct! The outcome is", "optimal", 0)
            ELSE showFeedback(s, "Incorrect. The correct outcome is",
                              "suboptimal", 0),
            "loadQuizQuestion", <<>>)

\* GameModes.resetBoard
resetBoard(s, randomKey) ==
    IF s.currentMode = "play" THEN startPlayMode(s)
    ELSE IF s.currentMode = "practice" THEN loadRandomPosition(s, randomKey)
    ELSE IF s.currentMode = "quiz" THEN loadQuizQuestion(s, randomKey)
    ELSE s

\* App.startMode; showing the game area and hiding the mode selector changes
\* nothing a handler reads
startMode(s, mode, randomKey) ==
    IF mode = "play" THEN startPlayMode(s)
    ELSE IF mode = "practice" THEN startPracticeMode(s, randomKey)
    ELSE IF mode = "quiz" THEN startQuizMode(s, randomKey)
    ELSE s

----------------------------------------------------------------------------
(* Consumer: the page's events *)

\* at most MaxTimers callbacks are pending at a time
MaxTimers == 2

\* at most MaxListeners click listeners are added to a cell in a session
MaxListeners == 3

\* a timer fires before more than MaxPendingClicks cell clicks are handled
MaxPendingClicks == 1

\* the value of the board c to the table: its terminal score, or the
\* best_outcome of its record
ValueOf(c) ==
    IF isTerminal(c) THEN TerminalScore(c)
    ELSE GameTreeJson[getCanonicalKey(c)].best_outcome

\* the lowest cell of b whose move keeps the best_outcome of b
BestCell(b) ==
    CHOOSE p \in Positions :
        /\ b[p] = EMPTY
        /\ ValueOf(makeMove(b, p, getCurrentPlayer(b))) = ValueOf(b)
        /\ \A q \in 0 .. (p - 1) :
              b[q] = EMPTY =>
                  ValueOf(makeMove(b, q, getCurrentPlayer(b))) # ValueOf(b)

\* the board b after the side to move played BestCell
BestMove(b) == makeMove(b, BestCell(b), getCurrentPlayer(b))

\* the position after n moves of the game in which both sides play BestCell
RECURSIVE MainLine(_)
MainLine(n) == IF n = 0 THEN createEmpty ELSE BestMove(MainLine(n - 1))

\* getRandomState is followed for the positions of that game with at most
\* MaxRandomEmpty empty cells
MaxRandomEmpty == 5

RandomKeys ==
    {getCanonicalKey(MainLine(n)) : n \in (CELLS - MaxRandomEmpty) .. (CELLS - 1)}

\* an exception no handler catches ends the running callback only
Caught(s) == [s EXCEPT !.abort = FALSE]

\* the click listeners of cell index, one per enableClicks call so far, run in
\* turn: each tests the cell's disabled class and calls the current handler
RECURSIVE ClickListeners(_, _, _)
ClickListeners(s, index, n) ==
    IF n = 0 THEN s
    ELSE LET s1 == IF index \in s.disabled \/ s.onCellClick = "null" THEN s
                   ELSE IF s.onCellClick = "handlePlayMove"
                   THEN Caught(handlePlayMove(s, index))
                   ELSE Caught(handlePracticeMove(s, index))
         IN  ClickListeners(s1, index, n - 1)

\* the answer listeners the clicked button carries run in turn
RECURSIVE AnswerListeners(_, _, _)
AnswerListeners(s, button, listeners) ==
    IF listeners = <<>> THEN s
    ELSE AnswerListeners(
             Caught(handleQuizAnswer(s, UserAnswer(button, Head(listeners)),
                                     getState(s.gameTree, Head(listeners)),
                                     getCurrentPlayer(stringToBoard(Head(listeners))))),
             button, Tail(listeners))

\* one more cell click handled while the timers of the bag were pending
Aged(timers) ==
    [t \in {[u EXCEPT !.clicks = u.clicks + 1] : u \in DOMAIN timers} |->
        timers[[t EXCEPT !.clicks = t.clicks - 1]]]

\* the page as a callback finds it: ui, and in gameTree the table that
\* gameTreeLoader.gameTree names
Page == [ui EXCEPT !.gameTree = GameTreeJson]

\* what gameTreeLoader.gameTree names when it holds table: the parsed
\* content of game_tree.json, or a table that differs from it
TableFile == "game_tree.json"

TableName(table) == IF table = GameTreeJson THEN TableFile ELSE "modified"

\* the update of the page by a callback, within the bounds on pending
\* timers and on listeners
Becomes(s) ==
    /\ BagCardinality(s.timers) <= MaxTimers
    /\ s.listeners <= MaxListeners
    /\ ui' = [s EXCEPT !.gameTree = NoTable]
    /\ loader' = [loader EXCEPT !.gameTree = TableName(s.gameTree)]

\* App.init: load() fetches and parses game_tree.json; on success the event
\* listeners are set up, on failure nothing is
\* what the request of game_tree.json can come to: the table is delivered
\* and parsed, fetch rejects, the response is not ok, response.json() rejects
LoadOutcomes == {"parsed", "fetchFails", "notOk", "parseFails"}

load_flagBeforeParse(ld, outcome) ==
    IF outcome = "parsed"
    THEN [loader |-> [gameTree |-> TableFile, isLoaded |-> TRUE],
          returned |-> TRUE]
    ELSE IF outcome = "parseFails"
    THEN [loader |-> [ld EXCEPT !.isLoaded = TRUE], returned |-> FALSE]
    ELSE [loader |-> ld, returned |-> FALSE]

\* GameTreeLoader.load: the loader as the call leaves it and what it returns;
\* every failure is thrown before this.gameTree is assigned and caught
load(ld, outcome) ==
    IF outcome = "parsed"
    THEN [loader |-> [gameTree |-> TableFile, isLoaded |-> TRUE],
          returned |-> TRUE]
    ELSE [loader |-> ld, returned |-> FALSE]

AppInit_registersOnFailure ==
    /\ pc = "page"
    /\ app = "constructed"
    /\ \E outcome \in LoadOutcomes :
          /\ loader' = load(loader, outcome).loader
          /\ app' = "ready"
    /\ UNCHANGED <<ui, pc>>
    /\ UNCHANGED codecVars
    /\ UNCHANGED pairVars
    /\ UNCHANGED solveVars

AppInit ==
    /\ pc = "page"
    /\ app = "constructed"
    /\ \E outcome \in LoadOutcomes :
          /\ loader' = load(loader, outcome).loader
          /\ app' = IF load(loader, outcome).returned
                    THEN "ready" ELSE "failed"
    /\ UNCHANGED <<ui, pc>>
    /\ UNCHANGED codecVars
    /\ UNCHANGED pairVars
    /\ UNCHANGED solveVars

\* a click on the mode button of mode
StartMode(mode) ==
    /\ app = "ready"
    /\ \E randomKey \in IF mode = "play" THEN {<<>>} ELSE RandomKeys :
          Becomes(Caught(startMode(Page, mode, randomKey)))
    /\ UNCHANGED <<app, pc>>
    /\ UNCHANGED codecVars
    /\ UNCHANGED pairVars
    /\ UNCHANGED solveVars

\* a click on the new round button
NewRound ==
    /\ app = "ready"
    /\ ui.currentMode # "null"
    /\ \E randomKey \in IF ui.currentMode = "play" THEN {<<>>} ELSE RandomKeys :
          Becomes(Caught(resetBoard(Page, randomKey)))
    /\ UNCHANGED <<app, pc>>
    /\ UNCHANGED codecVars
    /\ UNCHANGED pairVars
    /\ UNCHANGED solveVars

\* a click on the cell index of the board
CellClick(index) ==
    /\ app = "ready"
    /\ ui.currentMode # "null"
    /\ \A t \in BagToSet(ui.timers) : t.clicks < MaxPendingClicks
    /\ Becomes(ClickListeners([Page EXCEPT !.timers = Aged(ui.timers)],
                              index, ui.listeners))
    /\ UNCHANGED <<app, pc>>
    /\ UNCHANGED codecVars
    /\ UNCHANGED pairVars
    /\ UNCHANGED solveVars

\* a click on one of the three answer buttons of the question shown
QuizClick(button) ==
    /\ app = "ready"
    /\ ui.currentMode # "null"
    /\ ui.feedback.msg = QuizQuestion
    /\ Becomes(AnswerListeners(Page, button, ui.quizListeners))
    /\ UNCHANGED <<app, pc>>
    /\ UNCHANGED codecVars
    /\ UNCHANGED pairVars
    /\ UNCHANGED solveVars

\* the callback of the timer t runs on s
Callback(s, t, randomKey) ==
    IF t.fn = "attachQuizListeners" THEN attachQuizListeners(s, t.key)
    ELSE IF t.fn = "loadRandomPosition" THEN loadRandomPosition(s, randomKey)
    ELSE loadQuizQuestion(s, randomKey)

\* a pending timer fires and its callback runs
TimerFires(t) ==
    /\ BagIn(t, ui.timers)
    /\ \E randomKey \in IF t.fn = "attachQuizListeners" THEN {<<>>} ELSE RandomKeys :
          Becomes(Caught(Callback(
              [Page EXCEPT !.timers = ui.timers (-) SetToBag({t})],
              t, randomKey)))
    /\ UNCHANGED <<app, pc>>
    /\ UNCHANGED codecVars
    /\ UNCHANGED pairVars
    /\ UNCHANGED solveVars

Modes == {"play", "practice", "quiz"}

QuizButtons == {"quizWin", "quizDraw", "quizLoss"}

NextApp ==
    \/ AppInit
    \/ \E mode \in Modes : StartMode(mode)
    \/ NewRound
    \/ \E index \in Positions : CellClick(index)
    \/ \E button \in QuizButtons : QuizClick(button)
    \/ \E t \in BagToSet(ui.timers) : TimerFires(t)

\* the page opened in a browser, game_tree.json deployed with it
InitApp ==
    /\ pc = "page"
    /\ IdleCodec
    /\ IdlePair
    /\ IdleSolve
    /\ IdleApp

SpecApp == InitApp /\ [][NextApp]_vars

\* the page with the play mode only
NextPlay ==
    \/ AppInit
    \/ StartMode("play")
    \/ NewRound
    \/ \E index \in Positions : CellClick(index)

SpecPlay == InitApp /\ [][NextPlay]_vars

\* the page with the practice mode only
NextPractice ==
    \/ AppInit
    \/ StartMode("practice")
    \/ NewRound
    \/ \E index \in Positions : CellClick(index)
    \/ \E t \in BagToSet(ui.timers) : TimerFires(t)

SpecPractice == InitApp /\ [][NextPractice]_vars

\* ENABLED TimerFires(t) written out: the callback of a pending timer can run
\* unless it adds a click listener beyond the bound
TimerCanFire ==
    \E t \in BagToSet(ui.timers) :
        t.fn = "loadRandomPosition" => ui.listeners < MaxListeners

\* every scheduled timer fires, the browser running a setTimeout callback
\* once its delay has passed: weak fairness of the timer callbacks,
\* WF_vars(\E t : TimerFires(t)), with its ENABLED written as TimerCanFire;
\* a callback that runs leaves the bag of pending timers
TimersFire ==
    \/ []<>(~ TimerCanFire)
    \/ []<><<\E t \in BagToSet(ui.timers) : TimerFires(t)>>_(ui.timers)

SpecPracticeFair == SpecPractice /\ TimersFire

\* the first click on the practice button, getRandomState followed for
\* every key of the table
FirstPractice ==
    /\ app = "ready"
    /\ ui.currentMode = "null"
    /\ \E randomKey \in DOMAIN GameTreeJson :
          Becomes(Caught(startMode(Page, "practice", randomKey)))
    /\ UNCHANGED <<app, pc>>
    /\ UNCHANGED codecVars
    /\ UNCHANGED pairVars
    /\ UNCHANGED solveVars

\* one practice round on any position of the table
NextRound ==
    \/ AppInit
    \/ FirstPractice
    \/ \E index \in Positions : CellClick(index)

SpecRound == InitApp /\ [][NextRound]_vars

\* the first click on the quiz button, getRandomState followed for every
\* key of the table
FirstQuiz ==
    /\ app = "ready"
    /\ ui.currentMode = "null"
    /\ \E randomKey \in DOMAIN GameTreeJson :
          Becomes(Caught(startMode(Page, "quiz", randomKey)))
    /\ UNCHANGED <<app, pc>>
    /\ UNCHANGED codecVars
    /\ UNCHANGED pairVars
    /\ UNCHANGED solveVars

\* the page with the quiz mode only, the first question being any position
\* of the table
NextQuiz ==
    \/ AppInit
    \/ FirstQuiz
    \/ NewRound
    \/ \E button \in QuizButtons : QuizClick(button)
    \/ \E t \in BagToSet(ui.timers) : TimerFires(t)

SpecQuiz == InitApp /\ [][NextQuiz]_vars

\* BoardState.makeMove(board, position, getCurrentPlayer(board)): result is
\* what the call returns or throws, board the array passed as the call
\* leaves it
Move(position) ==
    /\ pc = "start"
    /\ result' = [position |-> position,
                  newBoard |-> makeMove(board, position,
                                        getCurrentPlayer(board))]
    /\ board' = makeMoveArgument(board, position, getCurrentPlayer(board))
    /\ pc' = "moved"
    /\ UNCHANGED <<input, str, key, perm>>
    /\ UNCHANGED <<arg, stack, memo, states, gameTree, rootValue>>
    /\ UNCHANGED pairVars
    /\ UNCHANGED appVars

\* makeMove on every cell of every board, and the page with the two modes
\* that move: play, and practice on every key of the table
InitMove == InitCodec \/ InitApp

NextMove ==
    \/ \E position \in Positions : Move(position)
    \/ AppInit
    \/ StartMode("play")
    \/ FirstPractice
    \/ \E index \in Positions : CellClick(index)

SpecMove == InitMove /\ [][NextMove]_vars

\* the two programs of the repository: a generation run, or the page
InitSystem == InitSolve \/ InitApp

NextSystem == NextSolve \/ NextApp

SpecSystem == InitSystem /\ [][NextSystem]_vars

----------------------------------------------------------------------------
(* Properties of the codec and the symmetry reducer *)

\* the value of a digit character, read off the digit alphabet
DigitValue(c) == (CHOOSE d \in 1 .. Len(Digits) : Digits[d] = c) - 1

\* a precedes or equals b lexicographically: equal, or smaller at the first
\* position where they differ (strings of equal length)
LexLeq(a, b) ==
    \/ a = b
    \/ \E i \in 1 .. Len(a) :
          /\ \A j \in 1 .. (i - 1) : a[j] = b[j]
          /\ DigitValue(a[i]) < DigitValue(b[i])

\* the encodings of the 8 transformed versions of board b
Encodings(b) ==
    {boardToString(applyTransformation(b, TRANSFORMATIONS[t])) :
        t \in 1 .. Len(TRANSFORMATIONS)}

\* b2 is the image of b1 under one of the 8 permutations
ImageOf(b1, b2) ==
    \E t \in 1 .. Len(TRANSFORMATIONS) :
        b2 = applyTransformation(b1, TRANSFORMATIONS[t])

\* C1: symmetry closure - the canonical key of the image of a board under
\* any of the 8 permutations equals the canonical key of the board itself.
C1_SymmetryClosure ==
    pc = "imagekeyed" => str = key

C1_Witness ==
    /\ pc = "imagekeyed"
    /\ perm = 2
    /\ board # input
    /\ str # boardToString(board)
    /\ str # boardToString(input)

\* C2: the canonical key is the lexicographically smallest of the 8
\* transformed encodings, and two boards have the same canonical key if and
\* only if one is the image of the other under one of the 8 permutations.
C2_SmallestAndUnique ==
    pc = "paired" =>
        /\ keyA \in Encodings(input)
        /\ \A e \in Encodings(input) : LexLeq(keyA, e)
        /\ (keyA = keyB) <=> (ImageOf(input, other) \/ ImageOf(other, input))

C2_Witness ==
    /\ pc = "paired"
    /\ keyA = keyB
    /\ other # input
    /\ CountOf(input, EMPTY) = CELLS - MaxMarks
    /\ keyA # boardToString(input)
    /\ keyA # boardToString(other)

\* C3: idempotence - decoding a canonical key and canonicalizing the decoded
\* board yields the same key, and the decoded board encodes to that key.
C3_Idempotence ==
    pc = "rekeyed" =>
        /\ str = key
        /\ boardToString(board) = key

C3_Witness ==
    /\ pc = "rekeyed"
    /\ board # input
    /\ CountOf(input, X_PLAYER) > 0
    /\ CountOf(input, O_PLAYER) > 0

\* the table of the grid symmetry that reads cell (r, c) from the cell whose
\* coordinates are (r, c), optionally exchanged, each optionally mirrored
GridSymmetry(swap, flipRow, flipCol) ==
    [j \in 1 .. CELLS |->
        LET r == (j - 1) \div 3
            c == (j - 1) % 3
            sr == IF swap THEN c ELSE r
            sc == IF swap THEN r ELSE c
        IN  3 * (IF flipRow THEN 2 - sr ELSE sr)
              + (IF flipCol THEN 2 - sc ELSE sc)]

Identity == GridSymmetry(FALSE, FALSE, FALSE)

\* quarter turn, half turn, three-quarter turn
Rotations ==
    {GridSymmetry(TRUE, TRUE, FALSE),
     GridSymmetry(FALSE, TRUE, TRUE),
     GridSymmetry(TRUE, FALSE, TRUE)}

\* left-right, top-bottom, main diagonal, anti-diagonal
Reflections ==
    {GridSymmetry(FALSE, FALSE, TRUE),
     GridSymmetry(FALSE, TRUE, FALSE),
     GridSymmetry(TRUE, FALSE, FALSE),
     GridSymmetry(TRUE, TRUE, TRUE)}

TableSet == {TRANSFORMATIONS[t] : t \in 1 .. Len(TRANSFORMATIONS)}

\* the table of: apply table t, then table u
Compose(t, u) == [j \in 1 .. CELLS |-> t[u[j] + 1]]

TablesAreDihedralGroup ==
    /\ Len(TRANSFORMATIONS) = 8
    /\ \A t \in TableSet :
          /\ Len(t) = CELLS
          /\ {t[j] : j \in 1 .. CELLS} = Positions
    /\ \A i, j \in 1 .. Len(TRANSFORMATIONS) :
          i # j => TRANSFORMATIONS[i] # TRANSFORMATIONS[j]
    /\ Cardinality(Rotations) = 3
    /\ Cardinality(Reflections) = 4
    /\ TableSet = {Identity} \cup Rotations \cup Reflections
    /\ \A t, u \in TableSet : Compose(t, u) \in TableSet
    /\ \A t \in TableSet : \E u \in TableSet : Compose(t, u) = Identity

\* C4: the 8 tables are pairwise distinct permutations of 0..8, exactly the
\* identity, the three rotations and the four reflections of the grid, closed
\* under composition and inverse; every transformed board is the image of
\* the input under one of these grid symmetries.
C4_DihedralGroup ==
    /\ TablesAreDihedralGroup
    /\ pc = "transformed" =>
          \E g \in {Identity} \cup Rotations \cup Reflections :
              board = [j \in Positions |-> input[g[j + 1]]]

C4_Witness ==
    /\ pc = "transformed"
    /\ perm = 8
    /\ board # input
    /\ \A t \in 1 .. 7 : board # applyTransformation(input, TRANSFORMATIONS[t])

\* C5: round trip - decoding the encoding of a board gives the board back,
\* cell for cell.
C5_RoundTrip ==
    pc = "decoded" =>
        /\ DOMAIN board = Positions
        /\ \A i \in Positions : board[i] = input[i]

C5_Witness ==
    /\ pc = "decoded"
    /\ CountOf(input, X_PLAYER) = 3
    /\ CountOf(input, O_PLAYER) = 2
    /\ str = <<"1", "2", "0", "0", "1", "0", "2", "0", "1">>

----------------------------------------------------------------------------
(* Properties of the generation run and of the emitted table *)

\* the number of canonical states the documentation reports
ExpectedStates == 627

EmptyKey == <<"0", "0", "0", "0", "0", "0", "0", "0", "0">>

\* the 3 rows, 3 columns and 2 diagonals, as sets of positions
Lines ==
    {{3 * r + c : c \in 0 .. 2} : r \in 0 .. 2}
        \cup {{3 * r + c : r \in 0 .. 2} : c \in 0 .. 2}
        \cup {{4 * i : i \in 0 .. 2}, {2 * i + 2 : i \in 0 .. 2}}

HasLine(b) ==
    \E l \in Lines : \E p \in {X_PLAYER, O_PLAYER} : \A i \in l : b[i] = p

Full(b) == \A i \in Positions : b[i] # EMPTY

TerminalBoard(b) == HasLine(b) \/ Full(b)

ScoresOf(record) ==
    {record.next_moves[i].minimax_score : i \in 1 .. Len(record.next_moves)}

Largest(S) == CHOOSE x \in S : \A y \in S : y <= x

Smallest(S) == CHOOSE x \in S : \A y \in S : x <= y

\* C6: root value - solve(emptyBoard) returns 0 and the record for the key
\* "000000000" has best_outcome 0.
C6_RootValue ==
    pc = "done" =>
        /\ rootValue = 0
        /\ EmptyKey \in DOMAIN gameTree
        /\ gameTree[EmptyKey].best_outcome = 0

C6_Witness ==
    /\ pc = "done"
    /\ EmptyKey \in DOMAIN gameTree
    /\ Len(gameTree[EmptyKey].next_moves) = CELLS

C8_Consistency ==
    pc = "done" =>
        \A k \in DOMAIN gameTree :
            /\ gameTree[k].best_outcome \in {-1, 0, 1}
            /\ gameTree[k].turn \in {X_PLAYER, O_PLAYER}
            /\ gameTree[k].turn = X_PLAYER =>
                  gameTree[k].best_outcome = Largest(ScoresOf(gameTree[k]))
            /\ gameTree[k].turn = O_PLAYER =>
                  gameTree[k].best_outcome = Smallest(ScoresOf(gameTree[k]))

C8_Witness ==
    /\ pc = "done"
    /\ \E k \in DOMAIN gameTree :
          /\ gameTree[k].turn = O_PLAYER
          /\ ScoresOf(gameTree[k]) = {-1, 0, 1}
    /\ \E k \in DOMAIN gameTree :
          /\ gameTree[k].turn = X_PLAYER
          /\ ScoresOf(gameTree[k]) = {-1, 0, 1}

\* C9: optimality coverage - every record has at least one move with
\* is_optimal true, and a move has is_optimal true if and only if its
\* minimax_score equals the record's best_outcome.
C9_OptimalityCoverage ==
    pc = "done" =>
        \A k \in DOMAIN gameTree :
            /\ \E i \in 1 .. Len(gameTree[k].next_moves) :
                  gameTree[k].next_moves[i].is_optimal
            /\ \A i \in 1 .. Len(gameTree[k].next_moves) :
                  gameTree[k].next_moves[i].is_optimal
                      <=> (gameTree[k].next_moves[i].minimax_score
                              = gameTree[k].best_outcome)

C9_Witness ==
    /\ pc = "done"
    /\ \E k \in DOMAIN gameTree :
          /\ gameTree[k].turn = O_PLAYER
          /\ \E i \in 1 .. Len(gameTree[k].next_moves) :
                gameTree[k].next_moves[i].is_optimal
          /\ \E i \in 1 .. Len(gameTree[k].next_moves) :
                /\ ~ gameTree[k].next_moves[i].is_optimal
                /\ gameTree[k].next_moves[i].minimax_score
                      > gameTree[k].best_outcome

\* C10: every key of the emitted table is a non-terminal board that is its
\* own canonical key; a terminal board is never recorded, and a full board
\* with no line scores 0.
C10_OnlyNonTerminalCanonical ==
    /\ pc = "done" =>
          \A k \in DOMAIN gameTree :
              /\ ~ TerminalBoard(stringToBoard(k))
              /\ getCanonicalKey(stringToBoard(k)) = k
    /\ pc = "aggregate" => ~ TerminalBoard(arg)
    /\ (pc = "return" /\ TerminalBoard(arg)) =>
          /\ getCanonicalKey(arg) \notin DOMAIN states
          /\ boardToString(arg) \notin DOMAIN states
          /\ (Full(arg) /\ ~ HasLine(arg)) => result = 0

C10_Witness ==
    /\ pc = "return"
    /\ Full(arg)
    /\ ~ HasLine(arg)
    /\ result = 0
    /\ Cardinality(DOMAIN states) > 0

\* the score of a finished board read off the lines: +1 for a line of X,
\* -1 for a line of O, 0 for none
LineScore(b) ==
    IF \E l \in Lines : \A i \in l : b[i] = X_PLAYER THEN 1
    ELSE IF \E l \in Lines : \A i \in l : b[i] = O_PLAYER THEN -1
    ELSE 0

MovesOf(record) == {record.next_moves[i] : i \in 1 .. Len(record.next_moves)}

\* C12: cross-record score consistency - for every move of every record,
\* minimax_score is the terminal score of to_board when to_board is terminal,
\* and otherwise the table holds a record under the canonical key of to_board
\* whose best_outcome equals that minimax_score.
C12_CrossRecordScores ==
    pc = "done" =>
        \A k \in DOMAIN gameTree :
            \A m \in MovesOf(gameTree[k]) :
                LET child == stringToBoard(m.to_board)
                IN  IF TerminalBoard(child)
                    THEN m.minimax_score = LineScore(child)
                    ELSE /\ getCanonicalKey(child) \in DOMAIN gameTree
                         /\ gameTree[getCanonicalKey(child)].best_outcome
                               = m.minimax_score

\* a record with a finished child won by O, and a record with an unfinished
\* child whose own record is stored under another key than its to_board
C12_Witness ==
    /\ pc = "done"
    /\ \E k \in DOMAIN gameTree :
          \E m \in MovesOf(gameTree[k]) :
              /\ TerminalBoard(stringToBoard(m.to_board))
              /\ m.minimax_score = -1
    /\ \E k \in DOMAIN gameTree :
          \E m \in MovesOf(gameTree[k]) :
              /\ ~ TerminalBoard(stringToBoard(m.to_board))
              /\ getCanonicalKey(stringToBoard(m.to_board)) # m.to_board
              /\ getCanonicalKey(stringToBoard(m.to_board)) \in DOMAIN gameTree

EmptyCells(b) == {i \in Positions : b[i] = EMPTY}

\* the board instance a record was computed from, rebuilt from its first
\* move: to_board with the cell at pos emptied again
Instance(record) ==
    [stringToBoard(record.next_moves[1].to_board)
        EXCEPT ![record.next_moves[1].pos] = EMPTY]

\* moves is one move per empty cell of parent, in increasing order of pos
OnePerEmptyCell(moves, parent) ==
    /\ Len(moves) = Cardinality(EmptyCells(parent))
    /\ {moves[i].pos : i \in 1 .. Len(moves)} = EmptyCells(parent)
    /\ \A i \in 1 .. (Len(moves) - 1) : moves[i].pos < moves[i + 1].pos

\* each to_board is parent with mark written at pos and nothing else
MarkWritten(moves, parent, mark) ==
    \A i \in 1 .. Len(moves) :
        /\ moves[i].to_board
              = boardToString([parent EXCEPT ![moves[i].pos] = mark])
        /\ stringToBoard(moves[i].to_board)
              = [parent EXCEPT ![moves[i].pos] = mark]

\* C13: move list shape - every record's next_moves holds exactly one move
\* per empty cell of the parent board instance that was solved, in increasing
\* order of pos, each to_board is that instance with the mover's mark written
\* at pos and every other cell unchanged, and the canonical key of the
\* instance is the record's key. Holds of the emitted table, and of every
\* call of solve that is still collecting its moves.
C13_MoveListShape ==
    /\ pc = "done" =>
          /\ \A k \in DOMAIN gameTree :
                OnePerEmptyCell(gameTree[k].next_moves, Instance(gameTree[k]))
          /\ \A k \in DOMAIN gameTree :
                MarkWritten(gameTree[k].next_moves, Instance(gameTree[k]),
                            gameTree[k].turn)
          /\ \A k \in DOMAIN gameTree :
                getCanonicalKey(Instance(gameTree[k])) = k
    /\ \A n \in 1 .. Len(stack) :
          /\ stack[n].key = getCanonicalKey(stack[n].board)
          /\ \A i \in 1 .. Len(stack[n].moves) :
                stack[n].moves[i].pos = stack[n].cells[i]
          /\ MarkWritten(stack[n].moves, stack[n].board, stack[n].mover)
          /\ pc = "aggregate" /\ n = 1 =>
                OnePerEmptyCell(stack[n].moves, stack[n].board)

\* a record computed from an instance that is not its own canonical key, with
\* O to move and more than one empty cell
C13_Witness ==
    /\ pc = "done"
    /\ \E k \in DOMAIN gameTree :
          /\ boardToString(Instance(gameTree[k])) # k
          /\ gameTree[k].turn = O_PLAYER
          /\ Len(gameTree[k].next_moves) > 1

OptimalPositions(record) ==
    {m.pos : m \in {n \in MovesOf(record) : n.is_optimal}}

\* C14: tie-break - in every record winning_move_pos is the pos of a move
\* with is_optimal true, and it is the lowest pos among the moves of that
\* record with is_optimal true.
C14_TieBreak ==
    pc = "done" =>
        \A k \in DOMAIN gameTree :
            /\ gameTree[k].winning_move_pos \in OptimalPositions(gameTree[k])
            /\ \A p \in OptimalPositions(gameTree[k]) :
                  gameTree[k].winning_move_pos <= p

\* records where the tie-break decides: several optimal moves, the lowest of
\* them not the first move of the list in one record, the empty board's
\* record answering position 0
C14_Witness ==
    /\ pc = "done"
    /\ \E k \in DOMAIN gameTree :
          /\ Cardinality(OptimalPositions(gameTree[k])) > 1
          /\ gameTree[k].winning_move_pos # gameTree[k].next_moves[1].pos
    /\ gameTree[EmptyKey].winning_move_pos = 0

\* C15: scenario 1 - the record for the empty board "000000000" has turn X,
\* best_outcome 0, exactly 9 next_moves with positions 0 through 8, and every
\* one of the 9 moves has is_optimal true.
C15_EmptyBoardRecord ==
    pc = "done" =>
        /\ EmptyKey \in DOMAIN gameTree
        /\ gameTree[EmptyKey].turn = X_PLAYER
        /\ gameTree[EmptyKey].best_outcome = 0
        /\ Len(gameTree[EmptyKey].next_moves) = CELLS
        /\ \A i \in 1 .. CELLS :
              /\ gameTree[EmptyKey].next_moves[i].pos = i - 1
              /\ gameTree[EmptyKey].next_moves[i].is_optimal

\* the emitted table holds the record of the empty board, computed from the
\* empty board itself, every move scoring a draw
C15_Witness ==
    /\ pc = "done"
    /\ EmptyKey \in DOMAIN gameTree
    /\ Instance(gameTree[EmptyKey]) = createEmpty
    /\ ScoresOf(gameTree[EmptyKey]) = {0}

\* the record computed for the board the solver was started on
InputRecord == gameTree[getCanonicalKey(input)]

\* the move of record at position p
MoveAt(record, p) == CHOOSE m \in MovesOf(record) : m.pos = p

----------------------------------------------------------------------------
(* Properties of the codec on input that nothing has validated *)

\* nine cells, each Empty, X or O
WellFormedBoard(b) == DOMAIN b = Positions /\ \A i \in Positions : b[i] \in Cells

\* nine characters, each one of the three cell symbols
WellFormedKey(k) ==
    Len(k) = CELLS /\ \A i \in 1 .. Len(k) : k[i] \in {"0", "1", "2"}

\* C18 as stated: the board codec rejects malformed input - encode fails
\* with InvalidBoard when a cell value is outside {Empty, X, O}, decode fails
\* with InvalidBoard when the key's length is not 9 or it holds a symbol other
\* than the three cell symbols; neither returns a board or a key for such
\* input. So whenever one of them has returned, its input was well formed.
C18_RejectsMalformed ==
    /\ pc = "rawEncoded" => WellFormedBoard(input)
    /\ pc = "rawDecoded" => WellFormedKey(str)

\* C19 as stated: a board whose X count minus O count is outside {0,1} is
\* rejected with InvalidBoard by the codec entry points instead of being
\* assigned a player to move and evaluated. So whenever boardToString,
\* getCanonicalKey or getCurrentPlayer has returned, the counts were legal.
C19_RejectsIllegalParity ==
    pc \in {"rawEncoded", "rawKeyed", "rawPlayer"} => LegalCounts(input)

----------------------------------------------------------------------------
(* Properties of the page *)

\* the lookup of the page for board b
Lookup(b) == getState(GameTreeJson, getCanonicalKey(b))

\* the keys of the table that encode an image of b under the 8 permutations
RecordsOf(b) == Encodings(b) \cap DOMAIN GameTreeJson

\* C11: lookup totality - once the table is loaded, for the board a game
\* played in turn from the empty board has reached, the lookup
\* getState(getCanonicalKey(board)) returns a record when the board is not
\* terminal and null when it is; and a non-terminal board has exactly one
\* record among the keys of its 8 images.
C11_LookupTotality ==
    (loader.isLoaded /\ ui.currentMode = "play") =>
        IF TerminalBoard(ui.currentBoard)
        THEN /\ Lookup(ui.currentBoard) = nullState
             /\ RecordsOf(ui.currentBoard) = {}
        ELSE /\ ~ Threw(Lookup(ui.currentBoard))
             /\ Lookup(ui.currentBoard) # nullState
             /\ "best_outcome" \in DOMAIN Lookup(ui.currentBoard)
             /\ Cardinality(RecordsOf(ui.currentBoard)) = 1

\* a game one move from the full board, on a board that is not its own key:
\* the lookup returns the record of its key
C11_Witness ==
    /\ loader.isLoaded
    /\ ui.currentMode = "play"
    /\ Cardinality(EmptyCells(ui.currentBoard)) = 1
    /\ ~ TerminalBoard(ui.currentBoard)
    /\ boardToString(ui.currentBoard) # getCanonicalKey(ui.currentBoard)
    /\ Lookup(ui.currentBoard) = GameTreeJson[getCanonicalKey(ui.currentBoard)]

\* the handler or panel update that ran on s completed: it threw nothing and
\* left the board the page held
Completed(s) ==
    /\ ~ s.abort
    /\ s.thrown = NoError
    /\ s.currentBoard = ui.currentBoard

----------------------------------------------------------------------------
(* Properties of the boards of both programs *)

\* X has as many marks as O or one more, and turn is X exactly when they
\* have as many
BoardParity(b, turn) ==
    /\ CountOf(b, X_PLAYER) - CountOf(b, O_PLAYER) \in {0, 1}
    /\ turn = X_PLAYER <=> CountOf(b, X_PLAYER) = CountOf(b, O_PLAYER)

\* the key of a record has the parity of its recorded turn, each to_board
\* that of the other side
RecordParity(k, record) ==
    /\ BoardParity(stringToBoard(k), record.turn)
    /\ \A i \in 1 .. Len(record.next_moves) :
          BoardParity(stringToBoard(record.next_moves[i].to_board),
                      X_PLAYER + O_PLAYER - record.turn)

\* the side the info panel names as the one to move
ShownTurn ==
    IF ui.currentTurn = "X" THEN X_PLAYER
    ELSE IF ui.currentTurn = "O" THEN O_PLAYER
    ELSE EMPTY

\* C17: board parity - every board the system produces has as many X marks
\* as O marks or one more, and its recorded or derived turn is X exactly when
\* the counts are equal: the board of each solve call and of each open frame
\* with its mover, each key and to_board of the records and of the emitted
\* table with the recorded turn, and currentBoard of the page in every mode
\* with the turn shown and the record looked up for it.
C17_BoardParity ==
    /\ pc \in {"call", "return", "aggregate", "serialize", "done"} =>
          BoardParity(arg, getCurrentPlayer(arg))
    /\ \A n \in 1 .. Len(stack) :
          BoardParity(stack[n].board, stack[n].mover)
    /\ (pc = "return" /\ getCanonicalKey(arg) \in DOMAIN states) =>
          RecordParity(getCanonicalKey(arg), states[getCanonicalKey(arg)])
    /\ pc = "done" => \A k \in DOMAIN gameTree : RecordParity(k, gameTree[k])
    /\ (pc = "page" /\ ui.currentMode # "null") =>
          /\ BoardParity(ui.currentBoard, ShownTurn)
          /\ Lookup(ui.currentBoard) # nullState =>
                RecordParity(getCanonicalKey(ui.currentBoard),
                             Lookup(ui.currentBoard))

\* quiz mode was started while the reload of a finished practice round was
\* pending; the reload put a practice position on the page and a click on it
\* was played by the practice handler, leaving O to move
C17_Witness ==
    /\ pc = "page"
    /\ ui.currentMode = "quiz"
    /\ ui.onCellClick = "handlePracticeMove"
    /\ ui.feedback.type \in {"optimal", "suboptimal"}
    /\ ui.feedback.msg # QuizQuestion
    /\ ui.quizListeners = <<>>
    /\ ui.currentTurn = "O"
    /\ CountOf(ui.currentBoard, X_PLAYER) = CountOf(ui.currentBoard, O_PLAYER) + 1

----------------------------------------------------------------------------
(* Properties of the loaded table *)

\* C21: table immutability - the table is loaded once: from a state in which
\* it is loaded, no mode start, reset, cell click, answer click or timer
\* callback, with the lookups they make, loads it again or leaves
\* gameTreeLoader.gameTree with a key, record or move that differs from the
\* parsed content of game_tree.json.
C21_TableImmutable ==
    [][loader.isLoaded =>
          /\ loader.gameTree = TableFile
          /\ loader' = loader]_vars

\* in quiz mode an answer was judged and the next question is scheduled, the
\* table still the one loaded
C21_Witness ==
    /\ loader.isLoaded
    /\ loader.gameTree = TableFile
    /\ ui.currentMode = "quiz"
    /\ ui.feedback.type \in {"optimal", "suboptimal"}
    /\ \E t \in BagToSet(ui.timers) : t.fn = "loadQuizQuestion"

----------------------------------------------------------------------------
(* Properties of the memo *)

\* the keys whose unsolved branch is being executed
OpenKeys == {stack[n].key : n \in 1 .. Len(stack)}

\* no key is open twice, no open key is memoized, and the memoized keys are
\* the recorded ones
OnceSoFar ==
    /\ \A m, n \in 1 .. Len(stack) : stack[m].key = stack[n].key => m = n
    /\ OpenKeys \cap DOMAIN memo = {}
    /\ DOMAIN memo = DOMAIN states

\* what is memoized and recorded stays as it is
MemoKept ==
    \A k \in DOMAIN memo :
        /\ k \in DOMAIN memo'
        /\ memo'[k] = memo[k]
        /\ states'[k] = states[k]

\* a call on a board whose key is memoized returns the memoized score and
\* opens no frame
MemoHit ==
    (pc = "call" /\ ~ isTerminal(arg) /\ getCanonicalKey(arg) \in DOMAIN memo) =>
        /\ pc' = "return"
        /\ result' = memo[getCanonicalKey(arg)]
        /\ UNCHANGED <<arg, stack, memo, states>>

\* the unsolved branch ends by memoizing the one key of its frame, which was
\* not memoized before
MemoMiss ==
    pc = "aggregate" =>
        /\ Head(stack).key \notin DOMAIN memo
        /\ DOMAIN memo' = DOMAIN memo \cup {Head(stack).key}
        /\ stack' = Tail(stack)

\* C22: memoization - in a generation run from the empty board the unsolved
\* branch of solve is executed exactly once for each canonical key: a frame
\* is opened only for a key that is neither memoized nor open, closing it
\* memoizes that key for good, and every later call on a board with that key
\* returns the memoized score without opening a frame.
C22_SolvedOnce == [][OnceSoFar /\ MemoKept /\ MemoHit /\ MemoMiss]_vars

\* a call has returned the score memoized under the key of its board, the
\* record of that key having been computed from another board
C22_Witness ==
    /\ pc = "return"
    /\ stack # <<>>
    /\ ~ isTerminal(arg)
    /\ getCanonicalKey(arg) \in DOMAIN memo
    /\ Instance(states[getCanonicalKey(arg)]) # arg
    /\ result = memo[getCanonicalKey(arg)]

----------------------------------------------------------------------------
(* Properties of the terminal test *)

LineOf(b, p) == \E l \in Lines : \A i \in l : b[i] = p

\* C23: terminal test and score - isTerminal(board) is true exactly when one
\* of the 8 lines holds three identical non-empty cells or no cell is empty;
\* the result is +1 / 'X' when the line is X's, -1 / 'O' when it is O's, and
\* 0 / draw only when the board is full with no line: a full board with a
\* line is a win, not a draw.
C23_TerminalTest ==
    pc = "judged" =>
        /\ result.terminal <=> (HasLine(board) \/ Full(board))
        /\ result.status.over <=> (HasLine(board) \/ Full(board))
        /\ result.status.draw <=> (Full(board) /\ ~ HasLine(board))
        /\ result.status.winner = "X" => LineOf(board, X_PLAYER)
        /\ result.status.winner = "O" => LineOf(board, O_PLAYER)
        /\ result.status.winner = "null" => ~ HasLine(board)
        /\ result.terminal =>
              /\ result.score = 1 <=> result.status.winner = "X"
              /\ result.score = -1 <=> result.status.winner = "O"
              /\ result.score = 0 <=> result.status.draw

\* a full board with a line of X and none of O has been judged: X wins
C23_Witness ==
    /\ pc = "judged"
    /\ Full(board)
    /\ LineOf(board, X_PLAYER)
    /\ ~ LineOf(board, O_PLAYER)
    /\ LegalCounts(board)
    /\ result.terminal
    /\ result.status.winner = "X"
    /\ result.score = 1

----------------------------------------------------------------------------
(* Properties of the practice mode *)

\* a practice round is on and its board is not finished
PracticeOpen ==
    /\ app = "ready"
    /\ ui.currentMode = "practice"
    /\ ~ isTerminal(ui.currentBoard)

\* r is the page after handlePracticeMove(position) on the displayed board
\* shown: the move is made and judged by the value of the board it gives
JudgedByValue(shown, position, r) ==
    /\ r.feedback.type \in {"optimal", "suboptimal"}
    /\ r.currentBoard = [shown EXCEPT ![position] = getCurrentPlayer(shown)]
    /\ r.feedback.type = "optimal" <=> ValueOf(r.currentBoard) = ValueOf(shown)

\* C24: practice-mode verdict - for every table key loaded as the displayed
\* board and every board reached later in the round, a click on any empty
\* cell finds a matching move record (neither 'State not found' nor 'Move
\* not found' on a non-terminal board), and the feedback is 'optimal' exactly
\* when the value of the resulting board equals the best achievable outcome
\* of the board that was displayed.
C24_PracticeVerdict ==
    PracticeOpen =>
        \A position \in Positions :
            ui.currentBoard[position] = EMPTY =>
                JudgedByValue(ui.currentBoard, position,
                              handlePracticeMove(Page, position))

\* a move was judged suboptimal on a board that is not the key it is
\* stored under, and the round goes on
C24_Witness ==
    /\ PracticeOpen
    /\ ui.feedback.type = "suboptimal"
    /\ boardToString(ui.currentBoard) # getCanonicalKey(ui.currentBoard)
    /\ CountOf(ui.currentBoard, EMPTY) <= 4

\* r is the page after handlePracticeMove(position) on the displayed board
\* shown: when the move is reported suboptimal, the position named (shown to
\* the user as winning_move_pos + 1) is an empty cell of shown and the move
\* there keeps the value of shown
HintIsOptimal(shown, r) ==
    r.feedback.type = "suboptimal" =>
        /\ r.feedback.pos - 1 \in Positions
        /\ shown[r.feedback.pos - 1] = EMPTY
        /\ ValueOf([shown EXCEPT ![r.feedback.pos - 1] = getCurrentPlayer(shown)])
               = ValueOf(shown)

\* C25: practice-mode hint - whenever practice mode reports a suboptimal
\* move, the position it names as the optimal one is an empty cell of the
\* board the user was shown before moving, and placing the mover's mark
\* there is an optimal move for that displayed board.
C25_PracticeHint ==
    PracticeOpen =>
        \A position \in Positions :
            ui.currentBoard[position] = EMPTY =>
                HintIsOptimal(ui.currentBoard, handlePracticeMove(Page, position))

----------------------------------------------------------------------------
(* Properties of the outcome panel *)

\* the entry of the 'Now' list is the move at its position on board shown
NowEntry(shown, entry) ==
    /\ entry.pos \in Positions
    /\ shown[entry.pos] = EMPTY
    /\ entry.score = ValueOf([shown EXCEPT ![entry.pos] = getCurrentPlayer(shown)])
    /\ entry.optimal <=> entry.score = ValueOf(shown)

\* the 'Now' list names the empty cells of board shown, each once
NowCells(shown, now) ==
    /\ {now[i].pos : i \in 1 .. Len(now)} = {p \in Positions : shown[p] = EMPTY}
    /\ \A i, j \in 1 .. Len(now) : now[i].pos = now[j].pos => i = j

\* C26: outcome panel, immediate moves - for every non-terminal board
\* displayed in any mode, the depth-0 ('Now') list built for the player to
\* move contains exactly the empty cells of the displayed board, each once,
\* and the score and optimal flag shown for a position are those of placing
\* the mover's mark at that position on the displayed board.
C26_NowList ==
    (/\ app = "ready"
     /\ ui.currentMode # "null"
     /\ ui.thrown = NoError
     /\ ~ isTerminal(ui.currentBoard)) =>
        /\ ui.outcomePanel.kind = "moves"
        /\ NowCells(ui.currentBoard, ui.outcomePanel.now)
        /\ \A i \in 1 .. Len(ui.outcomePanel.now) :
              NowEntry(ui.currentBoard, ui.outcomePanel.now[i])

----------------------------------------------------------------------------
(* Properties of the play mode *)

\* board after is board before with the user's X on an empty cell and, when
\* that does not end the game, the program's O on a cell that keeps the
\* value of the position: a move marked is_optimal
OptimalReply(before, after) ==
    \E p \in Positions :
        /\ before[p] = EMPTY
        /\ \/ /\ isTerminal([before EXCEPT ![p] = X_PLAYER])
              /\ after = [before EXCEPT ![p] = X_PLAYER]
           \/ /\ ~ isTerminal([before EXCEPT ![p] = X_PLAYER])
              /\ \E q \in Positions \ {p} :
                    /\ before[q] = EMPTY
                    /\ after = [before EXCEPT ![p] = X_PLAYER, ![q] = O_PLAYER]
                    /\ ValueOf(after) = ValueOf([before EXCEPT ![p] = X_PLAYER])

\* a step of a game of the play mode that changes the board
PlayStep ==
    /\ ui.currentMode = "play"
    /\ ui'.currentMode = "play"
    /\ ui'.currentBoard # ui.currentBoard
    /\ ui'.currentBoard # createEmpty

\* C27: perfect AI opponent - in a game played from the empty board against
\* the program, the opponent's moves are chosen by the program and are
\* always moves marked is_optimal true in the table, so no game against it
\* ends with the AI's side losing.
C27_PerfectOpponent ==
    [][PlayStep =>
          /\ OptimalReply(ui.currentBoard, ui'.currentBoard)
          /\ checkWinner(ui'.currentBoard) # X_PLAYER]_vars

----------------------------------------------------------------------------
(* Properties of the quiz mode *)

\* the outcome a label names for the player to move on board shown, on the
\* scale of the table: Win is a win of that player, Loss a win of the other
LabelScore(button, shown) ==
    IF button = "quizDraw" THEN 0
    ELSE IF (button = "quizWin") <=> (getCurrentPlayer(shown) = X_PLAYER) THEN 1
    ELSE -1

\* r is the page after a click on button under the question shown
JudgedByOutcome(button, shown, r) ==
    /\ r.feedback.type \in {"optimal", "suboptimal"}
    /\ r.feedback.type = "optimal" <=>
          LabelScore(button, shown) = GameTreeJson[boardToString(shown)].best_outcome

\* a quiz question is shown and its buttons answer
QuizOpen ==
    /\ app = "ready"
    /\ ui.currentMode = "quiz"
    /\ ui.feedback.msg = QuizQuestion
    /\ ui.quizListeners # <<>>

\* C28: quiz verdict - for every table state shown as a quiz question, the
\* answer is judged correct exactly when the chosen label, read from the
\* perspective of the player to move (Win = that player wins, Loss = that
\* player loses, Draw = draw), matches the state's best_outcome on the
\* X-maximizes scale.
C28_QuizVerdict ==
    QuizOpen =>
        \A button \in QuizButtons :
            JudgedByOutcome(button, ui.currentBoard,
                            AnswerListeners(Page, button, ui.quizListeners))

----------------------------------------------------------------------------
(* Progress of the practice mode *)

\* a practice round is on a finished board, and one more position can be
\* loaded within the bound on listeners
PracticeOver ==
    /\ app = "ready"
    /\ ui.currentMode = "practice"
    /\ isTerminal(ui.currentBoard)
    /\ ui.listeners < MaxListeners

\* a position of the table is the displayed board of the practice mode
PositionShown ==
    /\ ui.currentMode = "practice"
    /\ boardToString(ui.currentBoard) \in DOMAIN GameTreeJson
    /\ ui.feedback.msg = "Find the optimal move"

\* C29: practice-mode progress - whenever a practice move makes the board
\* terminal, a new random table position is eventually loaded as the
\* displayed board, the scheduled timer firing, without any further user
\* action; no practice round stays on a terminal board forever.
C29_PracticeProgress == PracticeOver ~> PositionShown

\* a practice move has finished the board and the timer that loads the next
\* position is pending
C29_Witness ==
    /\ PracticeOver
    /\ ui.feedback.type \in {"optimal", "suboptimal"}
    /\ \E t \in BagToSet(ui.timers) : t.fn = "loadRandomPosition"

----------------------------------------------------------------------------
(* Soundness of the memo *)

\* plain minimax on the raw board: no memo, no canonical key, the lines and
\* the turn read off the board; X maximizes, O minimizes
RECURSIVE Minimax(_)
Minimax(b) ==
    IF TerminalBoard(b) THEN LineScore(b)
    ELSE IF CountOf(b, X_PLAYER) = CountOf(b, O_PLAYER)
    THEN Largest({Minimax([b EXCEPT ![p] = X_PLAYER]) : p \in EmptyCells(b)})
    ELSE Smallest({Minimax([b EXCEPT ![p] = O_PLAYER]) : p \in EmptyCells(b)})

\* the 8 images of the board b
Images(b) ==
    {applyTransformation(b, TRANSFORMATIONS[t]) : t \in 1 .. Len(TRANSFORMATIONS)}

\* C30: memo soundness - for every non-terminal board B reachable from the
\* empty board, the score stored under canonicalKey(B) equals the plain
\* minimax value of B with X maximizing and O minimizing; the value of a
\* board is invariant under the 8 symmetries, so returning a score memoized
\* for a different raw instance is correct.
C30_MemoSound ==
    (pc = "return" /\ ~ TerminalBoard(arg)) =>
        /\ memo[getCanonicalKey(arg)] = result
        /\ \A b \in Images(arg) :
              /\ getCanonicalKey(b) = getCanonicalKey(arg)
              /\ Minimax(b) = result

\* solve has returned, for a board with a winner under best play, the score
\* memoized when another board of the same key was solved
C30_Witness ==
    /\ pc = "return"
    /\ ~ TerminalBoard(arg)
    /\ stack # <<>>
    /\ Instance(states[getCanonicalKey(arg)]) # arg
    /\ result = memo[getCanonicalKey(arg)]
    /\ result # 0

----------------------------------------------------------------------------
(* Termination of the generation run *)

\* the most marks a board holds: the longest chain of nested calls is one
\* call per number of marks, 0 to CELLS
LongestChain == CELLS + 1

\* the calls of solve in progress: one per open frame and the one running
ChainLength == Len(stack) + (IF pc = "call" THEN 1 ELSE 0)

\* the call running is on a board whose key no open frame has
NoReentry ==
    pc = "call" => getCanonicalKey(arg) \notin OpenKeys

\* C31: solver termination and depth bound - solve(emptyBoard) terminates,
\* every chain of nested solve calls has length at most 10 (depth at most 9
\* moves), and no call on a board with a given canonical key occurs while a
\* call for the same key is still in progress.
C31_Terminates ==
    /\ <>(pc = "done")
    /\ [](ChainLength <= LongestChain /\ NoReentry)

\* a chain of 10 nested calls: nine open frames and a call on a full board
C31_Witness ==
    /\ pc = "call"
    /\ ChainLength = LongestChain
    /\ Full(arg)

----------------------------------------------------------------------------
(* The end of a round of the play mode *)

\* the play mode shows a board on which the game is over
PlayOver ==
    /\ app = "ready"
    /\ ui.currentMode = "play"
    /\ isTerminal(ui.currentBoard)

\* a step in the play mode from a finished board leaves the board as it is
\* or starts a new round on the empty board
FinishedBoardKept ==
    (PlayOver /\ ui'.currentMode = "play") =>
        \/ ui'.currentBoard = ui.currentBoard
        \/ ui'.currentBoard = createEmpty

\* the board of the play mode: the marks alternate from X, there are at
\* most CELLS of them and at most one player has a completed line
PlayBoardLegal ==
    (app = "ready" /\ ui.currentMode = "play") =>
        /\ LegalCounts(ui.currentBoard)
        /\ CountOf(ui.currentBoard, X_PLAYER)
              + CountOf(ui.currentBoard, O_PLAYER) <= CELLS
        /\ ~ (LineOf(ui.currentBoard, X_PLAYER)
               /\ LineOf(ui.currentBoard, O_PLAYER))

\* C32: play mode stops at the end of the game - in play mode, after any
\* sequence of cell clicks driven through the renderer, once currentBoard is
\* terminal no further mark is added to it until the round is reset, so a
\* play-mode board never holds completed lines of both players and a round
\* accepts at most 9 moves.
C32_PlayStops ==
    /\ [][FinishedBoardKept]_vars
    /\ [](PlayBoardLegal)

\* a won game with empty cells left, every cell disabled
C32_Witness ==
    /\ PlayOver
    /\ HasLine(ui.currentBoard)
    /\ ~ Full(ui.currentBoard)
    /\ ui.disabled = Positions

----------------------------------------------------------------------------
(* The listeners of a cell *)

\* the cells in which the boards a and b differ
ChangedCells(a, b) == {i \in Positions : a[i] # b[i]}

\* after is before with at most one mark added: no further cell changed,
\* and where a mark was added the page is as the first listener left it
AtMostOneMove(before, after, once) ==
    /\ Cardinality(ChangedCells(before, after.currentBoard)) <= 1
    /\ \A i \in ChangedCells(before, after.currentBoard) : before[i] = EMPTY
    /\ after.currentBoard # before => after = once

\* C33: one click, at most one move - enableClicks adds a new listener to
\* every cell each time a round is started or reset and never removes the old
\* ones; nevertheless, after any number of mode starts and resets, a single
\* user click on a cell changes currentBoard by at most one mark (the second
\* and later listeners for that click do not apply a further move).
C33_OneClickOneMove ==
    (app = "ready" /\ ui.currentMode # "null") =>
        \A index \in Positions :
            AtMostOneMove(ui.currentBoard,
                          ClickListeners(Page, index, ui.listeners),
                          ClickListeners(Page, index, 1))

\* several listeners on a cell whose click adds a mark
C33_Witness ==
    /\ app = "ready"
    /\ ui.currentMode # "null"
    /\ ui.listeners > 1
    /\ \E index \in Positions :
          ClickListeners(Page, index, ui.listeners).currentBoard
              # ui.currentBoard

----------------------------------------------------------------------------
(* Timers and the mode *)

\* the mode that schedules the timer t
TimerMode(t) == IF t.fn = "loadRandomPosition" THEN "practice" ELSE "quiz"

\* the callback of t, run now, leaves the board, the click handler and the
\* enabled cells of s as they are
Inert(s, t) ==
    \A randomKey \in IF t.fn = "attachQuizListeners" THEN {<<>>}
                     ELSE RandomKeys :
        /\ Caught(Callback(s, t, randomKey)).currentBoard = s.currentBoard
        /\ Caught(Callback(s, t, randomKey)).onCellClick = s.onCellClick
        /\ Caught(Callback(s, t, randomKey)).disabled = s.disabled

\* the click handler is the one the current mode installs
HandlerOfMode ==
    /\ ui.currentMode = "play" => ui.onCellClick = "handlePlayMove"
    /\ ui.currentMode = "practice" => ui.onCellClick = "handlePracticeMove"

\* C34: delayed callbacks stay within their mode - a timer scheduled in
\* practice mode or in quiz mode never changes currentBoard, the active click
\* handler or the cells' enabled state after the user has started a different
\* mode; in every reachable state the displayed board and click handler
\* belong to currentMode.
C34_CallbacksInMode ==
    app = "ready" =>
        /\ HandlerOfMode
        /\ \A t \in BagToSet(ui.timers) :
              TimerMode(t) # ui.currentMode =>
                  Inert([Page EXCEPT !.timers = ui.timers (-) SetToBag({t})], t)

----------------------------------------------------------------------------
(* The answers of a quiz question *)

\* the number of pending timers that load the next question
PendingNext(timers) ==
    BagCardinality([t \in {u \in BagToSet(timers) : u.fn = "loadQuizQuestion"}
                       |-> timers[t]])

\* C35: one answer per quiz question - for each quiz question shown, at most
\* one answer is judged and at most one next-question timer is pending at any
\* time, so each answer causes exactly one new question to be loaded, under
\* any sequence of answer clicks and resets.
C35_OneAnswer ==
    app = "ready" =>
        /\ PendingNext(ui.timers) <= 1
        /\ QuizOpen =>
              \A button \in QuizButtons :
                  PendingNext(AnswerListeners(Page, button,
                                              ui.quizListeners).timers)
                      = PendingNext(ui.timers) + 1

----------------------------------------------------------------------------
(* Lookups and the load *)

\* the three lookups of the loader throw 'Game tree not loaded'
LookupsThrow ==
    /\ \A k \in RandomKeys \cup Encodings(createEmpty) :
          getState(GameTreeJson, k) = [error |-> NotLoaded]
    /\ getAllNonTerminalStates(GameTreeJson) = [error |-> NotLoaded]
    /\ \A k \in RandomKeys :
          getRandomState(GameTreeJson, k) = [error |-> NotLoaded]

\* C36: no lookup before load - getState, getAllNonTerminalStates and
\* getRandomState throw 'Game tree not loaded' while isLoaded is false, and in
\* the application this error is unreachable: mode buttons and click handlers
\* are registered only after load() has returned true, and when load() fails
\* no mode can ever be started.
C36_NoLookupBeforeLoad ==
    /\ ~ loader.isLoaded => LookupsThrow
    /\ ui.thrown # NotLoaded
    /\ (ui.currentMode # "null" \/ ui.listeners > 0 \/ ui.onCellClick # "null")
          => (app = "ready" /\ loader.isLoaded)
    /\ app = "failed" =>
          (~ loader.isLoaded /\ ui.currentMode = "null" /\ ui = GameModes)

\* the load has failed: the lookups throw and no mode is running
C36_Witness ==
    /\ app = "failed"
    /\ ~ loader.isLoaded
    /\ LookupsThrow
    /\ ui.currentMode = "null"

----------------------------------------------------------------------------
(* The winner of a board *)

\* the patterns of WIN_PATTERNS that one player has completed on b
CompletedPatterns(b) ==
    {p \in 1 .. Len(WIN_PATTERNS) :
        /\ b[WIN_PATTERNS[p][1]] # EMPTY
        /\ b[WIN_PATTERNS[p][1]] = b[WIN_PATTERNS[p][2]]
        /\ b[WIN_PATTERNS[p][2]] = b[WIN_PATTERNS[p][3]]}

\* the players that have completed a pattern on b
LineOwners(b) == {b[WIN_PATTERNS[p][1]] : p \in CompletedPatterns(b)}

\* C37: on every board reachable from the empty board by alternating moves
\* that stop at the first terminal board, at most one player has a completed
\* line, so the winner reported by checkWinner does not depend on the order
\* in which the 8 lines are scanned.
C37_OneWinner ==
    (app = "ready" /\ ui.currentMode = "play") =>
        /\ Cardinality(LineOwners(ui.currentBoard)) <= 1
        /\ \A p \in CompletedPatterns(ui.currentBoard) :
              checkWinner(ui.currentBoard)
                  = ui.currentBoard[WIN_PATTERNS[p][1]]
        /\ CompletedPatterns(ui.currentBoard) = {}
              => checkWinner(ui.currentBoard) = null

\* a game won with two lines at once: whichever is scanned first, the
\* winner is the same
C37_Witness ==
    /\ app = "ready"
    /\ ui.currentMode = "play"
    /\ Cardinality(CompletedPatterns(ui.currentBoard)) = 2
    /\ checkWinner(ui.currentBoard) = X_PLAYER

----------------------------------------------------------------------------
(* Rejected moves *)

\* the handler that ran on s, on the cell position of the board of the page,
\* reported the occupied cell and left the board as it was
Rejected(s) ==
    /\ s.feedback.msg = "Cell already occupied"
    /\ s.feedback.type = "error"
    /\ s.thrown = NoError
    /\ s.currentBoard = ui.currentBoard

\* C38: rejected moves change nothing - makeMove on an occupied position
\* throws and never modifies the board passed to it (it returns a new board
\* on success, differing from the input in exactly the one cell);
\* handlePlayMove and handlePracticeMove on an occupied cell report an error
\* and leave currentBoard unchanged.
C38_RejectedMoves ==
    /\ pc = "moved" =>
          /\ board = input
          /\ IF input[result.position] # EMPTY
             THEN result.newBoard = MoveError
             ELSE /\ result.newBoard \in Boards
                  /\ ChangedCells(input, result.newBoard) = {result.position}
                  /\ result.newBoard[result.position] = getCurrentPlayer(input)
    /\ (app = "ready" /\ ui.currentMode # "null") =>
          \A position \in Positions :
              ui.currentBoard[position] # EMPTY =>
                  /\ Rejected(handlePlayMove(Page, position))
                  /\ Rejected(handlePracticeMove(Page, position))

\* makeMove was called on an occupied cell: it threw, the board as passed
C38_Witness ==
    /\ pc = "moved"
    /\ input[result.position] # EMPTY
    /\ result.newBoard = MoveError
    /\ board = input

----------------------------------------------------------------------------
(* The state of the loader *)

\* a load that fails returns false and leaves the loader ld as it was
FailedLoadKeeps(ld) ==
    \A outcome \in LoadOutcomes \ {"parsed"} :
        /\ ~ load(ld, outcome).returned
        /\ load(ld, outcome).loader = ld

\* C39: loader state invariant - in every reachable state of GameTreeLoader,
\* isLoaded is true only if gameTree holds the parsed table; when the fetch
\* fails, the response is not ok, or parsing fails, load() returns false and
\* leaves isLoaded false.
C39_LoaderInvariant ==
    /\ loader.isLoaded => loader.gameTree = TableFile
    /\ app = "ready" <=> loader.isLoaded
    /\ app = "failed" =>
          /\ loader = GameTreeLoader
          /\ FailedLoadKeeps(GameTreeLoader)

\* init has run and load() has returned false: the loader is as constructed
C39_Witness ==
    /\ app = "failed"
    /\ loader.gameTree = NoTable
    /\ ~ loader.isLoaded

====
